---- MODULE Spec2Model ----
(***************************************************************************)
(* A model of ingresso-finder-cli: the retrying content gateway            *)
(* (service/tickets.go), the bounded fan-out / fan-in aggregation and the  *)
(* navigation state machine (tui/app.go) and the TTL cache (store).        *)
(*                                                                         *)
(* Each component has its own group of variables and its own               *)
(* specification; a specification leaves the other groups untouched.       *)
(***************************************************************************)
EXTENDS Integers, Sequences, FiniteSets, Bags, TLC

VARIABLES
    \* ---- Client.getJSON (service/tickets.go) ----
    gjPc,          \* "request" | "wait" | "done": position in the retry loop
    gjMax,         \* c.maxAttempts as configured (may be below 1)
    gjAttempt,     \* loop variable attempt
    gjCtx,         \* the caller's context: "live" | "canceled" | "deadline"
    gjOutcomes,    \* history: the outcome of every attempt made so far
    gjResult,      \* what the call returned
    \* ---- the store package: files of the cache directory, and the clock ----
    disk,          \* cache path -> file (absent, or the JSON text last written)
    now,           \* time.Now(), in minutes
    stSaves,       \* number of Save calls made (bounded)
    stTicks,       \* number of clock advances made (bounded)
    stLast,        \* the Load call just made, if the last operation was one: its
                   \* key and what it returned
    stSaved,       \* history: cache path -> the last Save call (data, time)
    \* ---- appModel.fetchMovieCatalogCmd (tui/app.go): one aggregation ----
    agTheaters,    \* the theaters argument: theater ids in launch order
    agGateway,     \* theater id -> what GetSessionsByCityAndTheater answers
    agPc,          \* theater id -> position of its goroutine
    agSem,         \* number of tokens held in the channel sem
    agOut,         \* the buffered channel out: results in the order sent
    agMain,        \* "waiting" (in wg.Wait) | "returned"
    agMsg,         \* the movieCatalogMsg the command returned
    \* ---- appModel (tui/app.go): the program under bubbletea ----
    app,           \* the appModel
    files,         \* files of the store: history and theater visibility
    pending,       \* bag of the commands running in the background
    quit,          \* tea.Quit was returned
    env,           \* the surroundings: keys the user presses, outcomes of commands
    \* ---- the commands that read the cache before the gateway (tui/app.go) ----
    fetched,       \* the command that ran last: what it consulted and returned
    \* ---- the store package: the files of the configuration directory ----
    visibility,    \* theater_visibility.json: absent, or the map hidden_by_city
    visCalls,      \* history: city, theater -> the last SetTheaterHidden that succeeded
    visLoaded,     \* the LoadHiddenTheaters call just made, if the last operation was one
    cityHist,      \* history.json: the remembered cities, newest first
    theaterHist,   \* theaters.json: the remembered theaters, newest first
    \* ---- service.DetectCurrentLocation (service/location.go): one call ----
    locPc,         \* "system" | "providers" | "done"
    locAnswers,    \* "system" and provider name -> what the service answers
    locNext,       \* index of the provider the loop contacts next
    locContacted,  \* history: the services contacted, in order
    locErrors,     \* providerErrors
    locResult,     \* what the call returned
    \* ---- Client.retryDelay (service/tickets.go): one call ----
    rdPc,          \* "enter" | "loop" | "returned"
    rdIn,          \* the argument attempt, and c.retryBase and c.retryCap
    rd,            \* the locals attempt, base, cap, i, delay, and the value returned
    \* ---- computeSeatCounts (tui/app.go): one call ----
    scPc,          \* "call" | "done"
    scIn,          \* the argument seatMap
    sc             \* the seatCount returned

gjVars == <<gjPc, gjMax, gjAttempt, gjCtx, gjOutcomes, gjResult>>
stVars == <<disk, now, stSaves, stTicks, stLast, stSaved>>
agVars == <<agTheaters, agGateway, agPc, agSem, agOut, agMain, agMsg>>

navVars == <<app, files, pending, quit, env>>
fxVars == <<fetched>>
cfVars == <<visibility, visCalls, visLoaded, cityHist, theaterHist>>
locVars == <<locPc, locAnswers, locNext, locContacted, locErrors, locResult>>
rdVars == <<rdPc, rdIn, rd>>
scVars == <<scPc, scIn, sc>>

vars == <<gjVars, stVars, agVars, navVars, fxVars, cfVars, locVars, rdVars, scVars>>

----------------------------------------------------------------------------
(***************************************************************************)
(* Client.getJSON: the retry loop.                                         *)
(***************************************************************************)

defaultMaxAttempts == 3

\* largest configured maxAttempts explored (the default 3 is included)
MaxAttemptsCfg == 3

\* net/http status codes
StatusOK == 200
StatusMultipleChoices == 300
StatusNotFound == 404
StatusTooManyRequests == 429
StatusInternalServerError == 500

\* representative status codes of every class a server can answer with
StatusCodes == {199, 200, 299, 300, 400, 404, 429, 499, 500, 503, 599}

\* what one attempt (NewRequestWithContext + httpClient.Do + Decode) can meet
Outcomes ==
    [kind : {"createErr"}, code : {0}, cause : {"none"}]
    \cup [kind : {"netErr"}, code : {0}, cause : {"transport", "canceled", "deadline"}]
    \cup [kind : {"status"}, code : StatusCodes \ {200, 299}, cause : {"none"}]
    \cup [kind : {"status"}, code : {200, 299}, cause : {"json", "eof", "badjson"}]

NoResult == [tag |-> "none", code |-> 0, cause |-> "none"]

\* c.maxAttempts with values below 1 replaced by 1
EffectiveMaxAttempts(maxAttempts) == IF maxAttempts < 1 THEN 1 ELSE maxAttempts

\* a retry policy that forgets the 4xx exclusion
shouldRetryStatusAny4xx(code) == code >= 400

shouldRetryStatus(code) ==
    code = StatusTooManyRequests \/ code >= StatusInternalServerError

shouldRetryNetworkError(cause) ==
    cause # "canceled" /\ cause # "deadline"

\* does the loop go round again after this outcome of attempt number `attempt`
Retries(o, attempt, maxAttempts) ==
    CASE o.kind = "netErr" -> shouldRetryNetworkError(o.cause) /\ attempt < maxAttempts
      [] o.kind = "status" /\ (o.code < StatusOK \/ o.code >= StatusMultipleChoices) ->
            shouldRetryStatus(o.code) /\ attempt < maxAttempts
      [] OTHER -> FALSE

\* the value getJSON returns when it returns right after this outcome
OutcomeResult(o) ==
    CASE o.kind = "createErr" -> [tag |-> "createErr", code |-> 0, cause |-> "none"]
      [] o.kind = "netErr" -> [tag |-> "requestFailed", code |-> 0, cause |-> o.cause]
      [] o.kind = "status" /\ (o.code < StatusOK \/ o.code >= StatusMultipleChoices) ->
            [tag |-> "apiErr", code |-> o.code, cause |-> "none"]
      [] o.kind = "status" /\ o.cause = "json" ->
            [tag |-> "payload", code |-> o.code, cause |-> "none"]
      [] o.kind = "status" /\ o.cause = "eof" ->
            [tag |-> "nil", code |-> o.code, cause |-> "none"]
      [] OTHER -> [tag |-> "decodeErr", code |-> o.code, cause |-> "none"]

\* IsNotFound: an APIError whose status is 404
\* every API error taken for a 404
IsNotFoundAnyStatus(r) == r.tag = "apiErr"

IsNotFound(r) == r.tag = "apiErr" /\ r.code = StatusNotFound

\* the retry loop before any call
IdleGetJSON ==
    /\ gjPc = "done"
    /\ gjMax = defaultMaxAttempts
    /\ gjAttempt = 1
    /\ gjCtx = "live"
    /\ gjOutcomes = << >>
    /\ gjResult = NoResult

InitGetJSON ==
    /\ gjPc = "request"
    /\ gjMax \in -1 .. MaxAttemptsCfg
    /\ gjAttempt = 1
    /\ gjCtx \in {"live", "canceled", "deadline"}
    /\ gjOutcomes = << >>
    /\ gjResult = NoResult

\* One iteration of the for loop: build the request, send it, look at the answer.
\* With a context that is already done the transport fails with the context's error;
\* a live context may be cancelled, or may expire, while the request is in flight.
GetJSONAttempt ==
    /\ gjPc = "request"
    /\ gjAttempt <= EffectiveMaxAttempts(gjMax)
    /\ \E o \in Outcomes :
         /\ gjCtx # "live" => (o.kind = "createErr" \/ (o.kind = "netErr" /\ o.cause = gjCtx))
         /\ gjCtx' = IF gjCtx = "live" /\ o.kind = "netErr" /\ o.cause = "canceled"
                     THEN "canceled" ELSE gjCtx
         /\ gjOutcomes' = Append(gjOutcomes, o)
         /\ IF Retries(o, gjAttempt, EffectiveMaxAttempts(gjMax))
            THEN /\ gjPc' = "wait"
                 /\ gjResult' = gjResult
            ELSE /\ gjPc' = "done"
                 /\ gjResult' = OutcomeResult(o)
    /\ UNCHANGED <<gjMax, gjAttempt>>
    /\ UNCHANGED <<stVars, agVars, navVars, fxVars, cfVars, locVars, rdVars, scVars>>

\* waitRetry, case <-timer.C: the backoff elapsed, the loop continues
GetJSONWaitTimer ==
    /\ gjPc = "wait"
    /\ gjCtx = "live"
    /\ gjPc' = "request"
    /\ gjAttempt' = gjAttempt + 1
    /\ UNCHANGED <<gjMax, gjCtx, gjOutcomes, gjResult>>
    /\ UNCHANGED <<stVars, agVars, navVars, fxVars, cfVars, locVars, rdVars, scVars>>

\* a wait that sits out the timer although the context is done
GetJSONWaitOutTimer ==
    /\ gjPc = "wait"
    /\ gjCtx # "live"
    /\ gjPc' = "request"
    /\ gjAttempt' = gjAttempt + 1
    /\ UNCHANGED <<gjMax, gjCtx, gjOutcomes, gjResult>>
    /\ UNCHANGED <<stVars, agVars, navVars, fxVars, cfVars, locVars, rdVars, scVars>>

\* waitRetry, case <-ctx.Done(): the call fails with ctx.Err()
GetJSONWaitCancelled ==
    /\ gjPc = "wait"
    /\ gjCtx # "live"
    /\ gjPc' = "done"
    /\ gjResult' = [tag |-> "ctxErr", code |-> 0, cause |-> gjCtx]
    /\ UNCHANGED <<gjMax, gjAttempt, gjCtx, gjOutcomes>>
    /\ UNCHANGED <<stVars, agVars, navVars, fxVars, cfVars, locVars, rdVars, scVars>>

\* the caller cancels the context, or its deadline passes, during the backoff
GetJSONCancel ==
    /\ gjPc = "wait"
    /\ gjCtx = "live"
    /\ gjCtx' \in {"canceled", "deadline"}
    /\ UNCHANGED <<gjPc, gjMax, gjAttempt, gjOutcomes, gjResult>>
    /\ UNCHANGED <<stVars, agVars, navVars, fxVars, cfVars, locVars, rdVars, scVars>>

NextGetJSON ==
    \/ GetJSONAttempt
    \/ GetJSONWaitTimer
    \/ GetJSONWaitCancelled
    \/ GetJSONCancel

----------------------------------------------------------------------------
(***************************************************************************)
(* The store package: TTL-governed cache files.                            *)
(*                                                                         *)
(* Time is counted in minutes. A Go slice is [nil, elems]; the JSON text   *)
(* of a slice is [tok, items] with tok "null" for a nil slice and "array"  *)
(* otherwise; a file whose text is no JSON document has tok "garbage".     *)
(* The elements themselves are values decoded from the API's JSON, which   *)
(* encoding/json writes and reads back unchanged.                          *)
(***************************************************************************)

Minute == 1
Hour == 60

cityCacheTTL == 7 * 24 * Hour
theaterCacheTTL == 72 * Hour
sessionCacheTTL == 10 * Minute

\* bounds of the cache exploration
MaxSaves == 1
MaxTicks == 2

NilSlice == [nil |-> TRUE, elems |-> << >>]
Slice(s) == [nil |-> FALSE, elems |-> s]
len(x) == Len(x.elems)

\* time.Time: the zero value, or an instant
ZeroTime == [zero |-> TRUE, at |-> 0]
TimeAt(t) == [zero |-> FALSE, at |-> t]

\* a comparison under which an entry exactly as old as the TTL has expired
SinceStrictlyWithin(t, ttl) == ~t.zero /\ now - t.at < ttl

\* time.Since(t) <= ttl; the zero time lies further back than any TTL
SinceWithin(t, ttl) == ~t.zero /\ now - t.at <= ttl

\* a stamp that ignores the clock
stampZero == ZeroTime

\* time.Now() as written into an envelope
stampNow == TimeAt(now)

\* json.MarshalIndent of a slice, and json.Unmarshal into a nil slice
MarshalSlice(x) ==
    IF x.nil THEN [tok |-> "null", items |-> << >>]
    ELSE [tok |-> "array", items |-> x.elems]

UnmarshalSlice(doc) ==
    IF doc.tok = "null" THEN NilSlice ELSE Slice(doc.items)

\* cacheEnvelope[T]{} : what loadCache returns for a missing file
ZeroEnvelope == [UpdatedAt |-> ZeroTime, Data |-> NilSlice]

NoFile == [exists |-> FALSE, updated_at |-> ZeroTime,
           data |-> [tok |-> "null", items |-> << >>]]

\* the file names of the cache directory
cachePathCities == [name |-> "cities", city |-> 0, theater |-> 0, date |-> 0]
cachePathTheaters(cityID) ==
    [name |-> "theaters", city |-> cityID, theater |-> 0, date |-> 0]
cachePathSessions(cityID, theaterID, date) ==
    [name |-> "sessions", city |-> cityID, theater |-> theaterID, date |-> date]

\* the cache files explored: the city list, the theater lists of two cities, the
\* session list of theater 1 of city 1 on day 0
CachePaths ==
    {cachePathCities}
    \cup {cachePathTheaters(c) : c \in {1, 2}}
    \cup {cachePathSessions(1, 1, 0)}

\* loadCache: a missing file is an empty envelope and no error; text that does not
\* parse is a decode error
loadCache(path) ==
    LET f == disk[path] IN
    IF ~f.exists THEN [cache |-> ZeroEnvelope, err |-> "none"]
    ELSE IF f.data.tok = "garbage" THEN [cache |-> ZeroEnvelope, err |-> "decode"]
    ELSE [cache |-> [UpdatedAt |-> f.updated_at, Data |-> UnmarshalSlice(f.data)],
          err |-> "none"]

\* saveCache: the file written for this data (a whole-file overwrite)
saveCache(data) ==
    [exists |-> TRUE, updated_at |-> stampNow, data |-> MarshalSlice(data)]

\* Load*Cache: (data, isFresh, error)
LoadWithTTL(path, ttl) ==
    LET c == loadCache(path) IN
    IF c.err # "none" THEN [data |-> NilSlice, fresh |-> FALSE, err |-> c.err]
    ELSE [data |-> c.cache.Data, fresh |-> SinceWithin(c.cache.UpdatedAt, ttl),
          err |-> "none"]

LoadCityCache == LoadWithTTL(cachePathCities, cityCacheTTL)
LoadTheaterCache(cityID) == LoadWithTTL(cachePathTheaters(cityID), theaterCacheTTL)
LoadSessionCache(cityID, theaterID, date) ==
    LoadWithTTL(cachePathSessions(cityID, theaterID, date), sessionCacheTTL)

\* the Load function and the TTL that belong to a cache file
LoadOf(path) ==
    CASE path.name = "cities" -> LoadCityCache
      [] path.name = "theaters" -> LoadTheaterCache(path.city)
      [] OTHER -> LoadSessionCache(path.city, path.theater, path.date)

TTLOf(path) ==
    CASE path.name = "cities" -> cityCacheTTL
      [] path.name = "theaters" -> theaterCacheTTL
      [] OTHER -> sessionCacheTTL

\* values a caller saves: a nil slice, an empty slice, a slice with elements
CacheData == {NilSlice, Slice(<< >>), Slice(<<2, 1>>)}

NoSave == [saved |-> FALSE, data |-> NilSlice, at |-> 0]
NoLoad == [loaded |-> FALSE, path |-> cachePathCities, data |-> NilSlice,
           fresh |-> FALSE, err |-> "none"]

\* the store before any cache file exists
IdleStore ==
    /\ disk = [p \in CachePaths |-> NoFile]
    /\ now = 0
    /\ stSaves = 0
    /\ stTicks = 0
    /\ stLast = NoLoad
    /\ stSaved = [p \in CachePaths |-> NoSave]

\* SaveCityCache / SaveTheaterCache / SaveSessionCache
CacheSave(path, data) ==
    /\ stSaves < MaxSaves
    /\ stSaves' = stSaves + 1
    /\ disk' = [disk EXCEPT ![path] = saveCache(data)]
    /\ stSaved' = [stSaved EXCEPT ![path] = [saved |-> TRUE, data |-> data, at |-> now]]
    /\ stLast' = NoLoad
    /\ UNCHANGED <<now, stTicks>>
    /\ UNCHANGED <<gjVars, agVars, navVars, fxVars, cfVars, locVars, rdVars, scVars>>

SaveCityCache == \E data \in CacheData : CacheSave(cachePathCities, data)

SaveTheaterCache ==
    \E c \in {1, 2}, data \in CacheData : CacheSave(cachePathTheaters(c), data)

SaveSessionCache ==
    \E data \in CacheData : CacheSave(cachePathSessions(1, 1, 0), data)

\* LoadCityCache / LoadTheaterCache / LoadSessionCache, called for any key
CacheLoad ==
    \E path \in CachePaths :
        LET r == LoadOf(path) IN
        /\ stLast' = [loaded |-> TRUE, path |-> path, data |-> r.data,
                      fresh |-> r.fresh, err |-> r.err]
        /\ UNCHANGED <<disk, now, stSaves, stTicks, stSaved>>
        /\ UNCHANGED <<gjVars, agVars, navVars, fxVars, cfVars, locVars, rdVars, scVars>>

\* the steps the clock makes: a minute, the length of a TTL, a minute more than a TTL
ClockSteps ==
    {Minute} \cup {ttl + e : ttl \in {sessionCacheTTL, theaterCacheTTL, cityCacheTTL},
                            e \in {0, Minute}}

\* time passes
ClockTick ==
    /\ stTicks < MaxTicks
    /\ stTicks' = stTicks + 1
    /\ \E d \in ClockSteps : now' = now + d
    /\ stLast' = NoLoad
    /\ UNCHANGED <<disk, stSaves, stSaved>>
    /\ UNCHANGED <<gjVars, agVars, navVars, fxVars, cfVars, locVars, rdVars, scVars>>

NextStore ==
    \/ SaveCityCache
    \/ SaveTheaterCache
    \/ SaveSessionCache
    \/ CacheLoad
    \/ ClockTick

----------------------------------------------------------------------------
(***************************************************************************)
(* tui/app.go: the aggregation of one date over a list of theaters         *)
(* (fetchMovieCatalogCmd, loadSessionsByTheater, aggregateMovieCatalog).   *)
(*                                                                         *)
(* A theater is its id, a positive number. Strings of the API (ids,        *)
(* titles, room names) are strings; a session id is a number.              *)
(***************************************************************************)

\* cap of the channel sem
SemCap == 6

\* bounds of the aggregation exploration: the length of the long theater list, and
\* the longest theater list whose answers vary
FanTheaters == 7
MaxAggTheaters == 2

\* the city and the date of the aggregation; the clock while it runs
AggCity == 1
AggDate == 0
AggNow == 2 * sessionCacheTTL

\* date.Format(time.DateOnly), and a date string of the API in that layout
FormatDateOnly(d) == [layout |-> "2006-01-02", day |-> d]

\* strings.TrimSpace and strings.ToLower on the strings that occur
TrimSpace(s) ==
    CASE s = " " -> ""
      [] s = " Movie X" -> "Movie X"
      [] s = " 1" -> "1"
      [] s = " 11" -> "11"
      [] OTHER -> s

ToLower(s) ==
    CASE s = "Movie X" -> "movie x"
      [] s = "MOVIE X" -> "movie x"
      [] s = " Movie X" -> " movie x"
      [] s = "Movie Y" -> "movie y"
      [] s = "X" -> "x"
      [] s = "Campinas" -> "campinas"
      [] s = "CAMPINAS" -> "campinas"
      [] s = "Santos" -> "santos"
      [] s = "SP" -> "sp"
      [] s = "RJ" -> "rj"
      [] s = "CITY 1" -> "city 1"
      [] s = "CINE 1" -> "cine 1"
      [] s = "Available" -> "available"
      [] s = "UNAVAILABLE" -> "unavailable"
      [] OTHER -> s

\* the byte order of the lower-cased titles: s < t
StringLess(s, t) ==
    LET rank == [u \in {" movie x", "movie x", "movie y"} |->
                    CASE u = " movie x" -> 1 [] u = "movie x" -> 2 [] OTHER -> 3]
    IN rank[s] < rank[t]

\* model.TheaterSession, TheaterRoom, TheaterMovie, TheaterSessionDay
TheaterSession(id, room) == [Id |-> id, Room |-> room]
TheaterRoom(name, sessions) == [Name |-> name, Sessions |-> sessions]
TheaterMovie(id, title, orig, rooms) ==
    [Id |-> id, Title |-> title, OriginalTitle |-> orig, Rooms |-> rooms]
TheaterSessionDay(date, movies) == [Date |-> date, Movies |-> movies]
ZeroDay == [Date |-> "", Movies |-> << >>]

\* the k-th session id of theater t
SessionId(t, k) == t * 10 + k

\* one room of theater t with session k in it; the session names no room itself
OneRoom(t, k) == <<TheaterRoom("Sala 1", <<TheaterSession(SessionId(t, k), "")>>)>>

\* two rooms of theater t: session k in the first, session k + 1 in the second,
\* which names its room itself
TwoRooms(t, k) ==
    <<TheaterRoom("Sala 1", <<TheaterSession(SessionId(t, k), " ")>>),
      TheaterRoom("Sala 2", <<TheaterSession(SessionId(t, k + 1), "VIP")>>)>>

\* an error of the gateway, as getJSON returns it
NoErr == NoResult
ErrNotFound == [tag |-> "apiErr", code |-> StatusNotFound, cause |-> "none"]
ErrOther == [tag |-> "apiErr", code |-> StatusInternalServerError, cause |-> "none"]

\* what a theater holds before the aggregation: its cache file and the answer of
\* GetSessionsByCityAndTheater
TheaterCase(file, days, err) == [file |-> file, days |-> days, err |-> err]

CachedAt(t, days) ==
    [exists |-> TRUE, updated_at |-> TimeAt(t), data |-> MarshalSlice(days)]

MovieY(t) == TheaterMovie("m2", "Movie Y", "", OneRoom(t, 5))

\* the cases of a theater t
TheaterCases(t) ==
    << \* 1: the API knows no sessions of the theater
       TheaterCase(NoFile, NilSlice, ErrNotFound),
       \* 2: the API fails
       TheaterCase(NoFile, NilSlice, ErrOther),
       \* 3: the day of the date has no movie, another day has one
       TheaterCase(NoFile,
           Slice(<<TheaterSessionDay(FormatDateOnly(AggDate), << >>),
                   TheaterSessionDay(FormatDateOnly(AggDate + 1), <<MovieY(t)>>)>>),
           NoErr),
       \* 4: movie m1 under the title "Movie X", two rooms
       TheaterCase(NoFile,
           Slice(<<TheaterSessionDay(FormatDateOnly(AggDate),
                     <<TheaterMovie("m1", "Movie X", "X", TwoRooms(t, 1))>>)>>),
           NoErr),
       \* 5: movie m1 under the title "MOVIE X"
       TheaterCase(NoFile,
           Slice(<<TheaterSessionDay(FormatDateOnly(AggDate),
                     <<TheaterMovie("m1", "MOVIE X", "X", OneRoom(t, 1))>>)>>),
           NoErr),
       \* 6: a movie without id titled "Movie X", and movie m2
       TheaterCase(NoFile,
           Slice(<<TheaterSessionDay(FormatDateOnly(AggDate),
                     <<TheaterMovie("", "Movie X", "X", OneRoom(t, 1)), MovieY(t)>>)>>),
           NoErr),
       \* 7: a movie with a blank id titled "MOVIE X"
       TheaterCase(NoFile,
           Slice(<<TheaterSessionDay(FormatDateOnly(AggDate),
                     <<TheaterMovie(" ", "MOVIE X", "x", OneRoom(t, 1))>>)>>),
           NoErr),
       \* 8: a movie without id titled " Movie X"
       TheaterCase(NoFile,
           Slice(<<TheaterSessionDay(FormatDateOnly(AggDate),
                     <<TheaterMovie("", " Movie X", "X", OneRoom(t, 1))>>)>>),
           NoErr),
       \* 9: the API answers with another day only
       TheaterCase(NoFile,
           Slice(<<TheaterSessionDay(FormatDateOnly(AggDate + 1), <<MovieY(t)>>)>>),
           NoErr),
       \* 10: a fresh cache file; the API would fail
       TheaterCase(
           CachedAt(AggNow - Minute,
               Slice(<<TheaterSessionDay(FormatDateOnly(AggDate), <<MovieY(t)>>)>>)),
           NilSlice, ErrOther),
       \* 11: a stale cache file; the API answers with movie m1
       TheaterCase(
           CachedAt(AggNow - sessionCacheTTL - Minute,
               Slice(<<TheaterSessionDay(FormatDateOnly(AggDate), <<MovieY(t)>>)>>)),
           Slice(<<TheaterSessionDay(FormatDateOnly(AggDate),
                     <<TheaterMovie("m1", "Movie X", "X", OneRoom(t, 1))>>)>>),
           NoErr) >>

NumTheaterCases == Len(TheaterCases(1))

\* the case every theater of the long list is in: the API knows no sessions
FanCase == 1

\* theaterSessionsResult
SessionsResult(t, days, err) == [theater |-> t, days |-> days, err |-> err]
NoSessionsResult == SessionsResult(0, NilSlice, NoErr)

\* loadSessionsByTheater for theater t, the gateway answering a: the result, where
\* it came from, and the cache file afterwards
loadSessionsAnswered(cityID, t, date, a) ==
    LET path == cachePathSessions(cityID, t, date)
        c == LoadSessionCache(cityID, t, date)
    IN  IF c.err = "none" /\ c.fresh /\ len(c.data) > 0
        THEN [days |-> c.data, err |-> NoErr, file |-> disk[path], source |-> "cache"]
        ELSE IF a.err # NoErr
        THEN [days |-> NilSlice, err |-> a.err, file |-> disk[path],
              source |-> "gateway"]
        ELSE [days |-> a.days, err |-> NoErr,
              file |-> IF len(a.days) > 0 THEN saveCache(a.days) ELSE disk[path],
              source |-> "gateway"]

\* loadSessionsByTheater inside the aggregation
loadSessionsByTheater(cityID, t, date) ==
    loadSessionsAnswered(cityID, t, date, agGateway[t])

\* selectDay
selectDay(days, date) ==
    IF len(days) = 0 THEN ZeroDay
    ELSE LET target == FormatDateOnly(date)
             hits == {i \in 1..len(days) : days.elems[i].Date = target}
         IN  IF hits # {}
             THEN days.elems[CHOOSE i \in hits : \A j \in hits : i <= j]
             ELSE days.elems[1]

\* a key that ignores the id
movieAggregateKeyTitles(movie) ==
    ToLower(TrimSpace(movie.Title)) \o "|" \o ToLower(TrimSpace(movie.OriginalTitle))

\* movieAggregateKey
movieAggregateKey(movie) ==
    IF TrimSpace(movie.Id) # "" THEN "id:" \o movie.Id
    ELSE ToLower(TrimSpace(movie.Title)) \o "|" \o ToLower(TrimSpace(movie.OriginalTitle))

\* aggregateMovieCatalog, the loops over the rooms of a movie and their sessions:
\* the entries appended, in order
RECURSIVE SessionsOfRooms(_, _)
SessionsOfRooms(rooms, theater) ==
    IF rooms = << >> THEN << >>
    ELSE LET room == Head(rooms) IN
         [i \in 1..Len(room.Sessions) |->
            [session |-> IF TrimSpace(room.Sessions[i].Room) = ""
                         THEN [room.Sessions[i] EXCEPT !.Room = room.Name]
                         ELSE room.Sessions[i],
             theater |-> theater]]
         \o SessionsOfRooms(Tail(rooms), theater)

\* aggregateMovieCatalog, the loop over the movies of a day: byMovie afterwards
RECURSIVE MergeMovies(_, _, _)
MergeMovies(byMovie, movies, theater) ==
    IF movies = << >> THEN byMovie
    ELSE LET movie == Head(movies)
             key == movieAggregateKey(movie)
             entry == IF key \in DOMAIN byMovie THEN byMovie[key]
                      ELSE [movie |-> [movie EXCEPT !.Rooms = << >>],
                            sessions |-> << >>]
             added == [entry EXCEPT
                          !.sessions = @ \o SessionsOfRooms(movie.Rooms, theater)]
         IN  MergeMovies((key :> added) @@ byMovie, Tail(movies), theater)

\* aggregateMovieCatalog, the loop over the channel: byMovie and the two counters
RECURSIVE MergeResults(_, _)
MergeResults(acc, results) ==
    IF results = << >> THEN acc
    ELSE LET result == Head(results)
             day == selectDay(result.days, AggDate)
             next ==
                IF result.err # NoErr
                THEN IF IsNotFound(result.err)
                     THEN [acc EXCEPT !.ignored = @ + 1]
                     ELSE [acc EXCEPT !.failed = @ + 1]
                ELSE IF Len(day.Movies) = 0
                THEN [acc EXCEPT !.ignored = @ + 1]
                ELSE [acc EXCEPT
                         !.byMovie = MergeMovies(@, day.Movies, result.theater)]
         IN  MergeResults(next, Tail(results))

EmptyMerge == [byMovie |-> << >>, failed |-> 0, ignored |-> 0]

\* aggregateMovieCatalog, the slice built from the map and sorted by sort.Slice:
\* every order of the aggregates in which no title precedes a smaller one
SortedMovies(byMovie) ==
    LET keys == DOMAIN byMovie
        n == Cardinality(keys)
    IN  { [i \in 1..n |-> byMovie[order[i]]] :
            order \in { o \in [1..n -> keys] :
                /\ \A i, j \in 1..n : i # j => o[i] # o[j]
                /\ \A i, j \in 1..n : i < j =>
                     ~StringLess(ToLower(byMovie[o[j]].movie.Title),
                                 ToLower(byMovie[o[i]].movie.Title)) } }

\* movieCatalogMsg
NoCatalogMsg == [movies |-> << >>, failed |-> 0, ignored |-> 0,
                 noSessions |-> FALSE, err |-> "none"]

\* the goroutines before they run
AggStart(theaters, cases) ==
    LET ids == 1..Len(theaters)
        paths == {cachePathSessions(AggCity, t, AggDate) : t \in ids}
    IN
    /\ agTheaters = theaters
    /\ agGateway = [t \in ids |-> [days |-> TheaterCases(t)[cases[t]].days,
                                   err |-> TheaterCases(t)[cases[t]].err]]
    /\ disk = [p \in paths |-> TheaterCases(p.theater)[cases[p.theater]].file]
    /\ stSaved = [p \in paths |-> NoSave]
    /\ now = AggNow
    /\ stSaves = 0
    /\ stTicks = 0
    /\ stLast = NoLoad
    /\ agPc = [t \in ids |-> [at |-> "sem", res |-> NoSessionsResult]]
    /\ agSem = 0
    /\ agOut = << >>
    /\ agMain = "waiting"
    /\ agMsg = NoCatalogMsg

\* no aggregation
IdleAgg ==
    /\ agTheaters = << >>
    /\ agGateway = << >>
    /\ agPc = << >>
    /\ agSem = 0
    /\ agOut = << >>
    /\ agMain = "returned"
    /\ agMsg = NoCatalogMsg

\* fetchMovieCatalogCmd is called with a list of up to MaxAggTheaters theaters in
\* any of the cases, or with the long list
InitAgg ==
    \/ \E n \in 0..MaxAggTheaters :
         \E cases \in [1..n -> 1..NumTheaterCases] :
            AggStart([t \in 1..n |-> t], cases)
    \/ AggStart([t \in 1..FanTheaters |-> t], [t \in 1..FanTheaters |-> FanCase])

\* len(theaters) == 0
AggNoTheaters ==
    /\ agMain = "waiting"
    /\ Len(agTheaters) = 0
    /\ agMain' = "returned"
    /\ agMsg' = [NoCatalogMsg EXCEPT !.err = "no theaters available"]
    /\ UNCHANGED <<agTheaters, agGateway, agPc, agSem, agOut>>
    /\ UNCHANGED <<gjVars, stVars, navVars, fxVars, cfVars, locVars, rdVars, scVars>>

\* a goroutine that starts its fetch without a token
AggAcquireUnbounded ==
    \E t \in DOMAIN agPc :
        /\ agPc[t].at = "sem"
        /\ agSem' = agSem + 1
        /\ agPc' = [agPc EXCEPT ![t].at = "load"]
        /\ UNCHANGED <<agTheaters, agGateway, agOut, agMain, agMsg>>
        /\ UNCHANGED <<gjVars, stVars, navVars, fxVars, cfVars, locVars, rdVars, scVars>>

\* a goroutine: sem <- struct{}{}
AggAcquire ==
    \E t \in DOMAIN agPc :
        /\ agPc[t].at = "sem"
        /\ agSem < SemCap
        /\ agSem' = agSem + 1
        /\ agPc' = [agPc EXCEPT ![t].at = "load"]
        /\ UNCHANGED <<agTheaters, agGateway, agOut, agMain, agMsg>>
        /\ UNCHANGED <<gjVars, stVars, navVars, fxVars, cfVars, locVars, rdVars, scVars>>

\* a goroutine: loadSessionsByTheater returns, <-sem
AggLoaded ==
    \E t \in DOMAIN agPc :
        LET r == loadSessionsByTheater(AggCity, t, AggDate) IN
        /\ agPc[t].at = "load"
        /\ disk' = [disk EXCEPT ![cachePathSessions(AggCity, t, AggDate)] = r.file]
        /\ agSem' = agSem - 1
        /\ agPc' = [agPc EXCEPT ![t] = [at |-> "out",
                                        res |-> SessionsResult(t, r.days, r.err)]]
        /\ UNCHANGED <<agTheaters, agGateway, agOut, agMain, agMsg>>
        /\ UNCHANGED <<now, stSaves, stTicks, stLast, stSaved>>
        /\ UNCHANGED <<gjVars, navVars, fxVars, cfVars, locVars, rdVars, scVars>>

\* a goroutine that sends on a channel as large as the semaphore
AggSendSmallChannel ==
    \E t \in DOMAIN agPc :
        /\ agPc[t].at = "out"
        /\ Len(agOut) < SemCap
        /\ agOut' = Append(agOut, agPc[t].res)
        /\ agPc' = [agPc EXCEPT ![t] = [at |-> "done", res |-> NoSessionsResult]]
        /\ UNCHANGED <<agTheaters, agGateway, agSem, agMain, agMsg>>
        /\ UNCHANGED <<gjVars, stVars, navVars, fxVars, cfVars, locVars, rdVars, scVars>>

\* a goroutine: out <- result, wg.Done
AggSend ==
    \E t \in DOMAIN agPc :
        /\ agPc[t].at = "out"
        /\ Len(agOut) < Len(agTheaters)
        /\ agOut' = Append(agOut, agPc[t].res)
        /\ agPc' = [agPc EXCEPT ![t] = [at |-> "done", res |-> NoSessionsResult]]
        /\ UNCHANGED <<agTheaters, agGateway, agSem, agMain, agMsg>>
        /\ UNCHANGED <<gjVars, stVars, navVars, fxVars, cfVars, locVars, rdVars, scVars>>

\* wg.Wait returns, close(out), aggregateMovieCatalog and the message
AggReturn ==
    /\ agMain = "waiting"
    /\ Len(agTheaters) > 0
    /\ \A t \in DOMAIN agPc : agPc[t].at = "done"
    /\ LET merged == MergeResults(EmptyMerge, agOut) IN
       \E movies \in SortedMovies(merged.byMovie) :
          agMsg' = IF Len(movies) = 0
                   THEN [movies |-> << >>, failed |-> merged.failed,
                         ignored |-> merged.ignored, noSessions |-> TRUE,
                         err |-> "no sessions found in visible theaters"]
                   ELSE [movies |-> movies, failed |-> merged.failed,
                         ignored |-> merged.ignored, noSessions |-> FALSE,
                         err |-> "none"]
    /\ agMain' = "returned"
    /\ UNCHANGED <<agTheaters, agGateway, agPc, agSem, agOut>>
    /\ UNCHANGED <<gjVars, stVars, navVars, fxVars, cfVars, locVars, rdVars, scVars>>

NextAgg ==
    \/ AggNoTheaters
    \/ AggAcquire
    \/ AggLoaded
    \/ AggSend
    \/ AggReturn

----------------------------------------------------------------------------
(***************************************************************************)
(* tui/app.go: the navigation state machine (appModel.Update).             *)
(*                                                                         *)
(* m is the appModel value, fs the files of the store that the handlers    *)
(* read and write, pending the commands that run in the background. A      *)
(* command delivers one message, or none; the order of delivery is free.   *)
(* The spinner's tick is left out: it changes the spinner only. Cities,    *)
(* theaters, sessions and sections are their ids, positive numbers, 0 the  *)
(* zero value; a date is a day number. The cursor of a list is where the   *)
(* user moved it, so a key message carries the index of the selected item. *)
(***************************************************************************)

\* bounds of the exploration: the latest working date, the commands running at
\* once, the length of a typed filter
MaxDate == 1
MaxInFlight == 1
MaxFilter == 1

\* appState
LoadingStates ==
    {"LoadingCities", "LoadingTheaters", "LoadingSessions", "LoadingSeatMap"}

\* list.Model: the items, the length of the filter text, the page and its size.
\* The items of the session list carry whether they match a typed text; of the
\* other lists every item matches, and their page is not followed: the cursor
\* ranges over all their visible items.
List(byMatch) ==
    [items |-> << >>, filter |-> 0, page |-> 0, perPage |-> 1, byMatch |-> byMatch]

\* the list of ManageTheaters, of which Index() and Select() are followed
IndexedList ==
    [items |-> << >>, filter |-> 0, page |-> 0, perPage |-> 1, byMatch |-> FALSE,
     index |-> 0]

Select(l, index) == [l EXCEPT !.index = index]

\* the movie list, of which the Title is followed
TitledList(title) ==
    [items |-> << >>, filter |-> 0, page |-> 0, perPage |-> 1, byMatch |-> FALSE,
     title |-> title]

\* the titles of the movie list (the second with a bullet for the dash)
titleOneTheater == "Select Movie"
titleAllTheaters == "Select Movie - All Theaters"

\* sessionItem: the session id, HasSeatSelection, and whether the item's filter
\* value matches a typed text
SessionItem(id, seats, match) ==
    [Id |-> id, HasSeatSelection |-> seats, match |-> match]
NoSession == SessionItem(0, FALSE, FALSE)

\* movieItem: the sessions of the movie (of one theater, or globalSessions)
MovieItem(sessions) == [sessions |-> sessions]

\* the elements of a sequence
Range(s) == {s[i] : i \in DOMAIN s}

\* the elements of s at the indices that keep marks
RECURSIVE KeepSeq(_, _)
KeepSeq(s, keep) ==
    IF s = << >> THEN << >>
    ELSE IF keep[1] THEN <<Head(s)>> \o KeepSeq(Tail(s), Tail(keep))
    ELSE KeepSeq(Tail(s), Tail(keep))

\* list.Model.VisibleItems: the items that match the filter
VisibleItems(l) ==
    IF l.filter = 0 \/ ~l.byMatch THEN l.items
    ELSE KeepSeq(l.items, [i \in 1..Len(l.items) |-> l.items[i].match])

\* paginator: the last page, the page kept inside the pages, GetSliceBounds
LastPage(l) ==
    LET n == Len(VisibleItems(l)) IN
    IF n = 0 THEN 0 ELSE (n - 1) \div l.perPage

updatePagination(l) ==
    IF l.page > LastPage(l) THEN [l EXCEPT !.page = LastPage(l)] ELSE l

SliceStart(l) == l.page * l.perPage
SliceEnd(l) ==
    LET n == Len(VisibleItems(l)) IN
    IF SliceStart(l) + l.perPage < n THEN SliceStart(l) + l.perPage ELSE n

\* the items of the current page
PageItems(l) ==
    IF l.byMatch THEN SubSeq(VisibleItems(l), SliceStart(l) + 1, SliceEnd(l))
    ELSE VisibleItems(l)

\* list.Model: SetItems, SetSize, SetFilterText, ResetFilter, NextPage, PrevPage
SetItems(l, items) == updatePagination([l EXCEPT !.items = items])
SetSize(l, perPage) == updatePagination([l EXCEPT !.perPage = perPage])
SetFilterText(l, n) == [l EXCEPT !.filter = n, !.page = 0]
ResetFilter(l) == updatePagination([l EXCEPT !.filter = 0])
NextPage(l) == IF l.page < LastPage(l) THEN [l EXCEPT !.page = @ + 1] ELSE l
PrevPage(l) == IF l.page > 0 THEN [l EXCEPT !.page = @ - 1] ELSE l

\* list.Model.SelectedItem: the item under the cursor, cursor counted from 1 on
\* the current page; ok is false when there is none
SelectedItem(l, cursor) ==
    IF cursor \in 1..Len(PageItems(l))
    THEN [ok |-> TRUE, item |-> PageItems(l)[cursor]]
    ELSE [ok |-> FALSE, item |-> 0]

\* seatCount: loaded and err (the counted seats are left out)
seatCount(loaded, e) == [loaded |-> loaded, err |-> e]

\* New(): the appModel after construction; dateList is the first date of the
\* date list, which holds five days
NewModel ==
    [state |-> "LoadingCities", lastState |-> "LoadingCities", err |-> "none",
     theaters |-> << >>, city |-> 0, theater |-> 0, date |-> 0, dateList |-> 0,
     dateReturnState |-> "LoadingCities", dateReturnStateSet |-> FALSE,
     cityList |-> List(FALSE), theaterList |-> List(FALSE),
     theaterPref |-> IndexedList, movieList |-> TitledList(titleOneTheater),
     sessionList |-> List(TRUE), sectionList |-> List(FALSE),
     seatMap |-> 0, selectedSession |-> NoSession, selectedSection |-> 0,
     showSeatNumbers |-> TRUE, seatCounts |-> << >>, hiddenTheaters |-> {},
     userLocation |-> FALSE, browsingAllTheaters |-> FALSE,
     errorSuggestNextDay |-> FALSE]

\* a command in the background, with the arguments it was made with
NoCmd ==
    [cmd |-> "none", city |-> 0, theater |-> 0, theaters |-> << >>, date |-> 0,
     session |-> 0, section |-> 0, err |-> "none", returnState |-> "LoadingCities",
     returnStateSet |-> FALSE, suggestNextDay |-> FALSE]

fetchCityByNameCmd == [NoCmd EXCEPT !.cmd = "fetchCityByName"]
fetchRecentCityCmd(recent) == [NoCmd EXCEPT !.cmd = "fetchRecentCity", !.city = recent]
fetchCitiesCmd == [NoCmd EXCEPT !.cmd = "fetchCities"]
fetchTheatersCmd(cityID) == [NoCmd EXCEPT !.cmd = "fetchTheaters", !.city = cityID]
fetchSessionsCmd(cityID, theaterID, date) ==
    [NoCmd EXCEPT !.cmd = "fetchSessions", !.city = cityID, !.theater = theaterID,
                  !.date = date]
fetchMovieCatalogCmd(cityID, theaters, date) ==
    [NoCmd EXCEPT !.cmd = "fetchMovieCatalog", !.city = cityID,
                  !.theaters = theaters, !.date = date]
detectLocationCmd == [NoCmd EXCEPT !.cmd = "detectLocation"]
fetchSessionDetailsCmd(sessionID) ==
    [NoCmd EXCEPT !.cmd = "fetchSessionDetails", !.session = sessionID]
fetchSeatMapCmd(sessionID, sectionID) ==
    [NoCmd EXCEPT !.cmd = "fetchSeatMap", !.session = sessionID, !.section = sectionID]
fetchSeatCountCmd(sessionID) ==
    [NoCmd EXCEPT !.cmd = "fetchSeatCount", !.session = sessionID]
openURLCmd(sessionID) == [NoCmd EXCEPT !.cmd = "openURL", !.session = sessionID]

\* errCmd and errWithOptionsCmd: commands that deliver an errMsg
errCmdNoText(e) == [NoCmd EXCEPT !.cmd = "err"]

errCmd(e) == [NoCmd EXCEPT !.cmd = "err", !.err = e]
errWithOptionsCmd(e, returnState, suggestNextDay) ==
    [NoCmd EXCEPT !.cmd = "err", !.err = e, !.returnState = returnState,
                  !.returnStateSet = TRUE, !.suggestNextDay = suggestNextDay]

\* the messages
errMsg(e, returnState, returnStateSet, suggestNextDay) ==
    [type |-> "errMsg", err |-> e, returnState |-> returnState,
     returnStateSet |-> returnStateSet, suggestNextDay |-> suggestNextDay]
citiesMsg(cities, e) == [type |-> "citiesMsg", cities |-> cities, err |-> e]
cityMsg(city, e) == [type |-> "cityMsg", city |-> city, err |-> e]
theatersMsg(theaters, e) == [type |-> "theatersMsg", theaters |-> theaters, err |-> e]
\* sessionsMsg: days is the number of days, movies the movie items of the day
\* that selectDay picks
sessionsMsg(days, movies, e) ==
    [type |-> "sessionsMsg", days |-> days, movies |-> movies, err |-> e]
movieCatalogMsg(movies, e, noSessions) ==
    [type |-> "movieCatalogMsg", movies |-> movies, err |-> e,
     noSessions |-> noSessions]
locationMsg(e) == [type |-> "locationMsg", err |-> e]
seatCountMsg(sessionID, count) ==
    [type |-> "seatCountMsg", sessionID |-> sessionID, count |-> count]
\* sessionDetailsMsg: sections are the section ids that sell seats
sessionDetailsMsg(sections, e) ==
    [type |-> "sessionDetailsMsg", sections |-> sections, err |-> e]
seatMapMsg(seatMap, e) == [type |-> "seatMapMsg", seatMap |-> seatMap, err |-> e]
WindowSizeMsg(perPage) == [type |-> "WindowSizeMsg", perPage |-> perPage]
KeyMsg(key, cursor) == [type |-> "KeyMsg", key |-> key, cursor |-> cursor]

\* the keys that are runes, which the filter of a list takes
RuneKeys == {"a", "q", "n", "x"}

\* the space key, which the filter of a list takes as well
SpaceKey == " "

\* recoverStateFrom
recoverStateFromSame(s) == s

\* a recovery that stays in Error when the error arrives in Error
recoverStateFromErrorStays(s) ==
    CASE s = "LoadingCities" -> "SelectCity"
      [] s = "LoadingTheaters" -> "SelectCity"
      [] s = "LoadingSessions" -> "SelectTheater"
      [] s = "LoadingSeatMap" -> "ShowSessions"
      [] OTHER -> s

recoverStateFrom(s) ==
    CASE s = "LoadingCities" -> "SelectCity"
      [] s = "LoadingTheaters" -> "SelectCity"
      [] s = "LoadingSessions" -> "SelectTheater"
      [] s = "LoadingSeatMap" -> "ShowSessions"
      [] s = "Error" -> "SelectTheater"
      [] OTHER -> s

\* what a handler returns: the model, the files, the commands, and tea.Quit
Ret(m, fs, cmds) == [m |-> m, fs |-> fs, cmds |-> cmds, quit |-> FALSE]

\* store: RememberCity, LoadHiddenTheaters, SetTheaterHidden. An entry of the city
\* history is a city id; the hidden theaters of a city are a set. The theater
\* history, which RememberTheater writes, is read only to order and mark the items
\* of the theater list, which the model does not follow: it is left out.
maxRecentCities == 8

RECURSIVE Without(_, _)
Without(s, x) ==
    IF s = << >> THEN << >>
    ELSE IF Head(s) = x THEN Without(Tail(s), x)
    ELSE <<Head(s)>> \o Without(Tail(s), x)

Remembered(history, x, cap) ==
    LET next == <<x>> \o Without(history, x) IN
    IF Len(next) > cap THEN SubSeq(next, 1, cap) ELSE next

RememberCity(fs, city) ==
    [fs EXCEPT !.recentCities = Remembered(@, city, maxRecentCities)]

LoadHiddenTheaters(fs, cityID) ==
    IF cityID = 0 THEN {}
    ELSE IF cityID \in DOMAIN fs.hiddenByCity THEN fs.hiddenByCity[cityID]
    ELSE {}

SetTheaterHidden(fs, cityID, theaterID, hidden) ==
    LET current == LoadHiddenTheaters(fs, cityID)
        next == IF hidden THEN current \cup {theaterID} ELSE current \ {theaterID}
    IN  [fs EXCEPT !.hiddenByCity =
            IF next = {}
            THEN [c \in DOMAIN @ \ {cityID} |-> @[c]]
            ELSE (cityID :> next) @@ @]

\* activeList: the name of the list of the current screen, "" for none
activeList(m) ==
    CASE m.state = "SelectCity" -> "cityList"
      [] m.state = "SelectTheater" -> "theaterList"
      [] m.state = "ManageTheaters" -> "theaterPref"
      [] m.state = "SelectMovie" -> "movieList"
      [] m.state = "ShowSessions" -> "sessionList"
      [] m.state = "SelectSection" -> "sectionList"
      [] OTHER -> ""

\* resizeLists
resizeLists(m, perPage) ==
    [m EXCEPT !.cityList = SetSize(@, perPage), !.theaterList = SetSize(@, perPage),
              !.theaterPref = SetSize(@, perPage), !.movieList = SetSize(@, perPage),
              !.sessionList = SetSize(@, perPage), !.sectionList = SetSize(@, perPage)]

\* visibleTheaters
visibleTheaters(m) ==
    KeepSeq(m.theaters, [i \in 1..Len(m.theaters) |-> m.theaters[i] \notin m.hiddenTheaters])

\* refreshTheaterLists: buildTheaterItems and buildTheaterVisibilityItems
refreshTheaterLists(m) ==
    [m EXCEPT
        !.theaterList = SetItems(@, visibleTheaters(m)),
        !.theaterPref = SetItems(@,
            [i \in 1..Len(m.theaters) |->
                [theater |-> m.theaters[i],
                 hidden |-> m.theaters[i] \in m.hiddenTheaters]])]

\* pendingSeatCountSessionIDsOnCurrentPage
pendingSeatCountSessionIDsUnmarked(m) ==
    IF m.state # "ShowSessions" THEN << >>
    ELSE LET page == PageItems(m.sessionList)
             ask == KeepSeq(page,
                      [i \in 1..Len(page) |->
                          page[i].HasSeatSelection /\ page[i].Id # 0])
         IN  [i \in 1..Len(ask) |-> ask[i].Id]

\* a pass over all the pages of the filtered list
pendingSeatCountSessionIDsOnAllPages(m) ==
    IF m.state # "ShowSessions" THEN << >>
    ELSE LET page == VisibleItems(m.sessionList)
             ask == KeepSeq(page,
                      [i \in 1..Len(page) |->
                          /\ page[i].HasSeatSelection
                          /\ page[i].Id # 0
                          /\ page[i].Id \notin DOMAIN m.seatCounts])
         IN  [i \in 1..Len(ask) |-> ask[i].Id]

pendingSeatCountSessionIDsOnCurrentPage(m) ==
    IF m.state # "ShowSessions" THEN << >>
    ELSE LET page == PageItems(m.sessionList)
             ask == KeepSeq(page,
                      [i \in 1..Len(page) |->
                          /\ page[i].HasSeatSelection
                          /\ page[i].Id # 0
                          /\ page[i].Id \notin DOMAIN m.seatCounts])
         IN  [i \in 1..Len(ask) |-> ask[i].Id]

\* startSeatCountFetchForVisiblePage: the ids marked in seatCounts, one command
\* for each
startSeatCountFetchForVisiblePage(m, fs) ==
    LET ids == pendingSeatCountSessionIDsOnCurrentPage(m)
        marks == [id \in Range(ids) |-> seatCount(FALSE, "none")]
    IN  Ret([m EXCEPT !.seatCounts = marks @@ @], fs,
            [i \in 1..Len(ids) |-> fetchSeatCountCmd(ids[i])])

\* a filter that takes the runes and not the space key
handleFilterInputRunesOnly(m, msg) ==
    LET name == activeList(m) IN
    IF name = "" THEN [took |-> FALSE, m |-> m]
    ELSE IF msg.key \in RuneKeys
    THEN [took |-> TRUE, m |-> [m EXCEPT ![name] = SetFilterText(@, @.filter + 1)]]
    ELSE IF msg.key = "backspace"
    THEN IF m[name].filter = 0 THEN [took |-> FALSE, m |-> m]
         ELSE IF m[name].filter = 1
         THEN [took |-> TRUE, m |-> [m EXCEPT ![name] = ResetFilter(@)]]
         ELSE [took |-> TRUE, m |-> [m EXCEPT ![name] = SetFilterText(@, @.filter - 1)]]
    ELSE [took |-> FALSE, m |-> m]

\* handleFilterInput: whether the key went to the filter, and the model then
handleFilterInput(m, msg) ==
    LET name == activeList(m) IN
    IF name = "" THEN [took |-> FALSE, m |-> m]
    ELSE IF msg.key \in RuneKeys \/ msg.key = SpaceKey
    THEN [took |-> TRUE, m |-> [m EXCEPT ![name] = SetFilterText(@, @.filter + 1)]]
    ELSE IF msg.key = "backspace"
    THEN IF m[name].filter = 0 THEN [took |-> FALSE, m |-> m]
         ELSE IF m[name].filter = 1
         THEN [took |-> TRUE, m |-> [m EXCEPT ![name] = ResetFilter(@)]]
         ELSE [took |-> TRUE, m |-> [m EXCEPT ![name] = SetFilterText(@, @.filter - 1)]]
    ELSE [took |-> FALSE, m |-> m]

\* a picker that always returns to the sessions
openDatePickerToSessions(m, returnState) ==
    [m EXCEPT !.dateReturnState = "ShowSessions", !.dateReturnStateSet = TRUE,
              !.state = "SelectDate", !.dateList = m.date]

\* openDatePicker
openDatePicker(m, returnState) ==
    [m EXCEPT !.dateReturnState = returnState, !.dateReturnStateSet = TRUE,
              !.state = "SelectDate", !.dateList = m.date]

\* a way back that also leaves a Loading state, for the screen it recovers to
goBackCancelsLoading(m, fs) ==
    CASE m.state = "SelectTheater" ->
            IF Len(m.cityList.items) = 0
            THEN Ret([m EXCEPT !.state = "LoadingCities"], fs, <<fetchCitiesCmd>>)
            ELSE Ret([m EXCEPT !.state = "SelectCity"], fs, << >>)
      [] m.state = "SelectMovie" -> Ret([m EXCEPT !.state = "SelectTheater"], fs, << >>)
      [] m.state = "ShowSessions" -> Ret([m EXCEPT !.state = "SelectMovie"], fs, << >>)
      [] m.state = "ManageTheaters" -> Ret([m EXCEPT !.state = "SelectTheater"], fs, << >>)
      [] m.state = "SelectSection" -> Ret([m EXCEPT !.state = "ShowSessions"], fs, << >>)
      [] m.state = "ShowSeatMap" -> Ret([m EXCEPT !.state = "ShowSessions"], fs, << >>)
      [] m.state = "SelectDate" ->
            IF m.dateReturnStateSet
            THEN Ret([m EXCEPT !.state = m.dateReturnState,
                               !.dateReturnStateSet = FALSE], fs, << >>)
            ELSE Ret([m EXCEPT !.state = "ShowSessions"], fs, << >>)
      [] m.state = "Error" ->
            Ret([m EXCEPT !.state = m.lastState, !.errorSuggestNextDay = FALSE],
                fs, << >>)
      [] m.state \in LoadingStates ->
            Ret([m EXCEPT !.state = recoverStateFrom(m.state)], fs, << >>)
      [] OTHER -> Ret(m, fs, << >>)

\* goBack
goBack(m, fs) ==
    CASE m.state = "SelectTheater" ->
            IF Len(m.cityList.items) = 0
            THEN Ret([m EXCEPT !.state = "LoadingCities"], fs, <<fetchCitiesCmd>>)
            ELSE Ret([m EXCEPT !.state = "SelectCity"], fs, << >>)
      [] m.state = "SelectMovie" -> Ret([m EXCEPT !.state = "SelectTheater"], fs, << >>)
      [] m.state = "ShowSessions" -> Ret([m EXCEPT !.state = "SelectMovie"], fs, << >>)
      [] m.state = "ManageTheaters" -> Ret([m EXCEPT !.state = "SelectTheater"], fs, << >>)
      [] m.state = "SelectSection" -> Ret([m EXCEPT !.state = "ShowSessions"], fs, << >>)
      [] m.state = "ShowSeatMap" -> Ret([m EXCEPT !.state = "ShowSessions"], fs, << >>)
      [] m.state = "SelectDate" ->
            IF m.dateReturnStateSet
            THEN Ret([m EXCEPT !.state = m.dateReturnState,
                               !.dateReturnStateSet = FALSE], fs, << >>)
            ELSE Ret([m EXCEPT !.state = "ShowSessions"], fs, << >>)
      [] m.state = "Error" ->
            Ret([m EXCEPT !.state = m.lastState, !.errorSuggestNextDay = FALSE],
                fs, << >>)
      [] OTHER -> Ret(m, fs, << >>)

\* openSeatMapFromSelection
openSeatMapFromSelection(m, fs, msg) ==
    LET sel == SelectedItem(m.sessionList, msg.cursor) IN
    IF ~sel.ok THEN Ret(m, fs, << >>)
    ELSE IF ~sel.item.HasSeatSelection
    THEN Ret(m, fs, <<errCmd("this session does not support seat selection")>>)
    ELSE Ret([m EXCEPT !.selectedSession = sel.item, !.state = "LoadingSeatMap"],
             fs, <<fetchSessionDetailsCmd(sel.item.Id)>>)

\* openMovieAcrossTheaters
openMovieAcrossTheaters(m, fs) ==
    LET visible == visibleTheaters(m) IN
    IF Len(visible) = 0
    THEN Ret(m, fs, <<errCmd("no visible theaters selected")>>)
    ELSE Ret([m EXCEPT !.browsingAllTheaters = TRUE, !.theater = 0,
                       !.state = "LoadingSessions"],
             fs, <<fetchMovieCatalogCmd(m.city, visible, m.date)>>)

\* a retry that shows the loading screen and fetches no catalog
advanceToNextDayFromErrorIdle(m, fs) ==
    LET m1 == [m EXCEPT !.date = @ + 1, !.state = "LoadingSessions",
                        !.errorSuggestNextDay = FALSE]
        visible == visibleTheaters(m1)
    IN  IF m1.browsingAllTheaters
        THEN IF Len(visible) = 0
             THEN Ret(m1, fs, <<errWithOptionsCmd("no visible theaters selected",
                                                  "SelectTheater", FALSE)>>)
             ELSE Ret(m1, fs, << >>)
        ELSE IF m1.city = 0 \/ m1.theater = 0
        THEN Ret(m1, fs, <<errWithOptionsCmd("select a theater before trying another date",
                                             "SelectTheater", FALSE)>>)
        ELSE Ret(m1, fs, <<fetchSessionsCmd(m1.city, m1.theater, m1.date)>>)

\* advanceToNextDayFromError
advanceToNextDayFromError(m, fs) ==
    LET m1 == [m EXCEPT !.date = @ + 1, !.state = "LoadingSessions",
                        !.errorSuggestNextDay = FALSE]
        visible == visibleTheaters(m1)
    IN  IF m1.browsingAllTheaters
        THEN IF Len(visible) = 0
             THEN Ret(m1, fs, <<errWithOptionsCmd("no visible theaters selected",
                                                  "SelectTheater", FALSE)>>)
             ELSE Ret(m1, fs, <<fetchMovieCatalogCmd(m1.city, visible, m1.date)>>)
        ELSE IF m1.city = 0 \/ m1.theater = 0
        THEN Ret(m1, fs, <<errWithOptionsCmd("select a theater before trying another date",
                                             "SelectTheater", FALSE)>>)
        ELSE Ret(m1, fs, <<fetchSessionsCmd(m1.city, m1.theater, m1.date)>>)

\* a toggle that changes the hidden set in memory before it writes the file
toggleTheaterVisibilityEager(m, fs, msg, io) ==
    LET sel == SelectedItem(m.theaterPref, msg.cursor)
        hidden == ~sel.item.hidden
        id == sel.item.theater
        m1 == [m EXCEPT
                 !.hiddenTheaters = IF hidden THEN @ \cup {id} ELSE @ \ {id},
                 !.theater = IF hidden /\ @ = id THEN 0 ELSE @]
    IN  IF ~sel.ok THEN Ret(m, fs, << >>)
        ELSE IF m.city = 0 \/ id = 0
        THEN Ret(m, fs, <<errCmd("city id and theater id are required")>>)
        ELSE IF io # "ok"
        THEN Ret(m1, fs, <<errCmd("theater visibility not saved")>>)
        ELSE Ret(refreshTheaterLists(m1), SetTheaterHidden(fs, m.city, id, hidden),
                 << >>)

\* toggleTheaterVisibility; io tells whether the visibility file can be written.
\* Index() is the place of the cursor, counted from 0
toggleTheaterVisibility(m, fs, msg, io) ==
    LET sel == SelectedItem(m.theaterPref, msg.cursor)
        hidden == ~sel.item.hidden
        id == sel.item.theater
        m1 == [m EXCEPT
                 !.hiddenTheaters = IF hidden THEN @ \cup {id} ELSE @ \ {id},
                 !.theater = IF hidden /\ @ = id THEN 0 ELSE @]
        index == msg.cursor - 1
        m2 == refreshTheaterLists(m1)
        count == Len(m2.theaterPref.items)
    IN  IF ~sel.ok THEN Ret(m, fs, << >>)
        ELSE IF m.city = 0 \/ id = 0
        THEN Ret(m, fs, <<errCmd("city id and theater id are required")>>)
        ELSE IF io # "ok"
        THEN Ret(m, fs, <<errCmd("theater visibility not saved")>>)
        ELSE Ret(IF count > 0
                 THEN [m2 EXCEPT !.theaterPref =
                          Select(@, IF index >= count THEN count - 1 ELSE index)]
                 ELSE m2,
                 SetTheaterHidden(fs, m.city, id, hidden), << >>)

\* handleKey, the enter key on a screen; handled is false on the other screens
handleEnter(m, fs, msg, io) ==
    LET H(r) == [m |-> r.m, fs |-> r.fs, cmds |-> r.cmds, quit |-> FALSE,
                 handled |-> TRUE]
        name == activeList(m)
        sel == IF m.state = "SelectDate"
               THEN [ok |-> msg.cursor \in 1..5, item |-> m.dateList + msg.cursor - 1]
               ELSE IF name = "" THEN [ok |-> FALSE, item |-> 0]
               ELSE SelectedItem(m[name], msg.cursor)
        same == H(Ret(m, fs, << >>))
    IN
    CASE m.state = "Error" /\ m.errorSuggestNextDay ->
            H(advanceToNextDayFromError(m, fs))
      [] m.state = "SelectCity" ->
            IF ~sel.ok THEN same
            ELSE H(Ret([m EXCEPT !.city = sel.item, !.state = "LoadingTheaters"],
                       RememberCity(fs, sel.item), <<fetchTheatersCmd(sel.item)>>))
      [] m.state = "SelectTheater" ->
            IF ~sel.ok THEN same
            ELSE H(Ret([m EXCEPT !.theater = sel.item, !.browsingAllTheaters = FALSE,
                                 !.state = "LoadingSessions"],
                       fs,
                       <<fetchSessionsCmd(m.city, sel.item, m.date)>>))
      [] m.state = "SelectMovie" ->
            IF ~sel.ok THEN same
            ELSE H(startSeatCountFetchForVisiblePage(
                     [m EXCEPT !.sessionList = SetItems(@, sel.item.sessions),
                               !.state = "ShowSessions"], fs))
      [] m.state = "ManageTheaters" -> H(toggleTheaterVisibility(m, fs, msg, io))
      [] m.state = "ShowSessions" ->
            IF ~sel.ok THEN same
            ELSE H(Ret(m, fs, <<openURLCmd(sel.item.Id)>>))
      [] m.state = "SelectSection" ->
            IF ~sel.ok THEN same
            ELSE H(Ret([m EXCEPT !.selectedSection = sel.item,
                                 !.state = "LoadingSeatMap"],
                       fs, <<fetchSeatMapCmd(m.selectedSession.Id, sel.item)>>))
      [] m.state = "SelectDate" ->
            IF ~sel.ok THEN same
            ELSE LET m1 == [m EXCEPT !.date = sel.item] IN
                 IF m1.dateReturnStateSet
                    /\ m1.dateReturnState \in {"SelectCity", "SelectTheater"}
                 THEN H(Ret([m1 EXCEPT !.state = m1.dateReturnState,
                                       !.dateReturnStateSet = FALSE], fs, << >>))
                 ELSE IF m1.dateReturnStateSet
                         /\ m1.dateReturnState \in {"SelectMovie", "ShowSessions"}
                         /\ m1.browsingAllTheaters
                 THEN IF Len(visibleTheaters(m1)) = 0
                      THEN H(Ret(m1, fs, <<errCmd("no visible theaters selected")>>))
                      ELSE H(Ret([m1 EXCEPT !.state = "LoadingSessions",
                                            !.dateReturnStateSet = FALSE], fs,
                                 <<fetchMovieCatalogCmd(m1.city, visibleTheaters(m1),
                                                        m1.date)>>))
                 ELSE H(Ret([m1 EXCEPT !.state = "LoadingSessions",
                                       !.dateReturnStateSet = FALSE], fs,
                            <<fetchSessionsCmd(m1.city, m1.theater, m1.date)>>))
      [] OTHER -> [m |-> m, fs |-> fs, cmds |-> << >>, quit |-> FALSE,
                   handled |-> FALSE]

\* handleKey
handleKey(m, fs, msg, io) ==
    LET H(r) == [m |-> r.m, fs |-> r.fs, cmds |-> r.cmds, quit |-> FALSE,
                 handled |-> TRUE]
        not == [m |-> m, fs |-> fs, cmds |-> << >>, quit |-> FALSE,
                handled |-> FALSE]
        name == activeList(m)
    IN
    CASE msg.key \in {"ctrl+c", "q"} ->
            [m |-> m, fs |-> fs, cmds |-> << >>, quit |-> TRUE, handled |-> TRUE]
      [] msg.key = "esc" ->
            IF name # "" /\ m[name].filter > 0
            THEN LET m1 == [m EXCEPT ![name] = ResetFilter(@)] IN
                 IF m.state = "ShowSessions"
                 THEN H(startSeatCountFetchForVisiblePage(m1, fs))
                 ELSE H(Ret(m1, fs, << >>))
            ELSE H(goBack(m, fs))
      [] msg.key = "n" /\ m.state = "ShowSeatMap" ->
            H(Ret([m EXCEPT !.showSeatNumbers = ~@], fs, << >>))
      [] msg.key = "tab" /\ m.state = "ShowSessions" ->
            H(openSeatMapFromSelection(m, fs, msg))
      [] msg.key = "ctrl+l" /\ m.state \in {"SelectTheater", "ManageTheaters"} ->
            H(Ret(m, fs, <<detectLocationCmd>>))
      [] msg.key = "x" /\ m.state = "ManageTheaters" ->
            H(toggleTheaterVisibility(m, fs, msg, io))
      [] msg.key = "ctrl+f" /\ m.state = "SelectTheater" ->
            H(openMovieAcrossTheaters(m, fs))
      [] msg.key = "ctrl+t" /\ m.state = "SelectTheater" ->
            H(Ret(refreshTheaterLists([m EXCEPT !.state = "ManageTheaters"]), fs, << >>))
      [] msg.key = "ctrl+d"
         /\ m.state \in {"SelectCity", "SelectTheater", "SelectMovie", "ShowSessions"} ->
            H(Ret(openDatePicker(m, m.state), fs, << >>))
      [] msg.key = "ctrl+d" /\ m.state = "Error" /\ m.errorSuggestNextDay ->
            H(Ret(openDatePicker(m, "ShowSessions"), fs, << >>))
      [] msg.key = "enter" -> handleEnter(m, fs, msg, io)
      [] OTHER -> not

\* Update, the end of it: the message goes to the list of the screen; on
\* ShowSessions the list turns its page and a fetch pass follows
componentUpdate(m, fs, msg) ==
    IF m.state = "ShowSessions"
    THEN LET l == m.sessionList
             turned == IF msg.type # "KeyMsg" THEN l
                       ELSE IF msg.key = "right" THEN NextPage(l)
                       ELSE IF msg.key = "left" THEN PrevPage(l)
                       ELSE l
         IN  startSeatCountFetchForVisiblePage([m EXCEPT !.sessionList = turned], fs)
    ELSE Ret(m, fs, << >>)

\* Update, a key: f is what handleFilterInput returned, k what handleKey would
updateKeyMsg(m, fs, msg, f, k) ==
    IF f.took
    THEN IF m.state = "ShowSessions"
         THEN startSeatCountFetchForVisiblePage(f.m, fs)
         ELSE Ret(f.m, fs, << >>)
    ELSE IF k.handled
    THEN [m |-> k.m, fs |-> k.fs, cmds |-> k.cmds, quit |-> k.quit]
    ELSE componentUpdate(m, fs, msg)

\* a handler that shows the section list whenever there is a section
updateSessionDetailsMsgAlwaysList(m, fs, msg) ==
    IF msg.err # "none" THEN Ret(m, fs, <<errCmd(msg.err)>>)
    ELSE IF Len(msg.sections) = 0
    THEN Ret(m, fs, <<errCmd("no seat map available for this session")>>)
    ELSE Ret([m EXCEPT !.sectionList = SetItems(@, msg.sections),
                       !.state = "SelectSection"], fs, << >>)

\* Update, a sessionDetailsMsg; msg.sections is filterSeatSections of the
\* sections of the detail
updateSessionDetailsMsg(m, fs, msg) ==
    IF msg.err # "none" THEN Ret(m, fs, <<errCmd(msg.err)>>)
    ELSE IF Len(msg.sections) = 0
    THEN Ret(m, fs, <<errCmd("no seat map available for this session")>>)
    ELSE IF Len(msg.sections) = 1
    THEN Ret([m EXCEPT !.selectedSection = msg.sections[1],
                       !.state = "LoadingSeatMap"], fs,
             <<fetchSeatMapCmd(m.selectedSession.Id, msg.sections[1])>>)
    ELSE Ret([m EXCEPT !.sectionList = SetItems(@, msg.sections),
                       !.state = "SelectSection"], fs, << >>)

\* Update; io tells whether the visibility file can be read and written
Update(m, fs, msg, io) ==
    CASE msg.type = "WindowSizeMsg" ->
            LET m1 == resizeLists(m, msg.perPage) IN
            IF m.state = "ShowSessions"
            THEN startSeatCountFetchForVisiblePage(m1, fs)
            ELSE Ret(m1, fs, << >>)
      [] msg.type = "KeyMsg" ->
            updateKeyMsg(m, fs, msg, handleFilterInput(m, msg),
                         handleKey(m, fs, msg, io))
      [] msg.type = "errMsg" ->
            Ret([m EXCEPT !.err = msg.err,
                          !.lastState = IF msg.returnStateSet THEN msg.returnState
                                        ELSE recoverStateFrom(m.state),
                          !.errorSuggestNextDay = msg.suggestNextDay,
                          !.state = "Error"], fs, << >>)
      [] msg.type = "citiesMsg" ->
            IF msg.err # "none" THEN Ret(m, fs, <<errCmd(msg.err)>>)
            ELSE Ret([m EXCEPT !.cityList = SetItems(@, msg.cities),
                               !.state = "SelectCity"], fs, << >>)
      [] msg.type = "cityMsg" ->
            IF msg.err # "none"
            THEN Ret([m EXCEPT !.state = "LoadingCities"], fs, <<fetchCitiesCmd>>)
            ELSE Ret([m EXCEPT !.city = msg.city, !.theater = 0,
                               !.browsingAllTheaters = FALSE,
                               !.state = "LoadingTheaters"],
                     RememberCity(fs, msg.city), <<fetchTheatersCmd(msg.city)>>)
      [] msg.type = "theatersMsg" ->
            IF msg.err # "none" THEN Ret(m, fs, <<errCmd(msg.err)>>)
            ELSE LET m1 == [m EXCEPT !.theaters = msg.theaters] IN
                 IF io # "ok"
                 THEN Ret(m1, fs, <<errCmd("theater visibility not loaded")>>)
                 ELSE Ret([refreshTheaterLists(
                              [m1 EXCEPT !.hiddenTheaters =
                                            LoadHiddenTheaters(fs, m.city)])
                            EXCEPT !.state = "SelectTheater"], fs, << >>)
      [] msg.type = "sessionsMsg" ->
            IF msg.err # "none"
            THEN Ret(m, fs, <<errWithOptionsCmd(msg.err, "SelectTheater", FALSE)>>)
            ELSE IF msg.days = 0
            THEN Ret(m, fs, <<errWithOptionsCmd("no sessions found for this theater",
                                                "SelectTheater", TRUE)>>)
            ELSE Ret([m EXCEPT !.browsingAllTheaters = FALSE,
                               !.movieList = SetItems([@ EXCEPT !.title = titleOneTheater],
                                                      msg.movies),
                               !.state = "SelectMovie"], fs, << >>)
      [] msg.type = "movieCatalogMsg" ->
            IF msg.err # "none"
            THEN Ret(m, fs, <<errWithOptionsCmd(msg.err, "SelectTheater",
                                                msg.noSessions)>>)
            ELSE Ret([m EXCEPT !.browsingAllTheaters = TRUE,
                               !.movieList = SetItems([@ EXCEPT !.title = titleAllTheaters],
                                                      msg.movies),
                               !.state = "SelectMovie"], fs, << >>)
      [] msg.type = "locationMsg" ->
            IF msg.err # "none" THEN Ret(m, fs, <<errCmd(msg.err)>>)
            ELSE Ret(refreshTheaterLists([m EXCEPT !.userLocation = TRUE]), fs, << >>)
      [] msg.type = "seatCountMsg" ->
            Ret([m EXCEPT !.seatCounts = (msg.sessionID :> msg.count) @@ @], fs, << >>)
      [] msg.type = "sessionDetailsMsg" -> updateSessionDetailsMsg(m, fs, msg)
      [] msg.type = "seatMapMsg" ->
            IF msg.err # "none" THEN Ret(m, fs, <<errCmd(msg.err)>>)
            ELSE Ret([m EXCEPT !.seatMap = msg.seatMap, !.state = "ShowSeatMap"],
                     fs, << >>)
      [] OTHER -> componentUpdate(m, fs, msg)

\* what the API holds: the cities, the theaters of a city (the surroundings tell
\* how many)
NavCities == [i \in 1..env.cities |-> i]
TheatersOf(cityID) == [i \in 1..env.theaters |-> cityID * 10 + i]

\* the error of a command that failed
Failed == "request failed"

\* the error of a 404 answer, of which service.IsNotFound is true
NotFound == "api error: status 404"

\* a command that reports a 404 as it reports any other error
fetchSessionsMsgAnyError(days, movies, e) ==
    IF e # "none" THEN sessionsMsg(0, << >>, e) ELSE sessionsMsg(days, movies, e)

\* fetchSessionsCmd: the message made of what loadSessionsByTheater returned
fetchSessionsMsg(days, movies, e) ==
    IF e # "none"
    THEN IF e = NotFound THEN sessionsMsg(0, << >>, "none")
         ELSE sessionsMsg(0, << >>, e)
    ELSE sessionsMsg(days, movies, e)

\* fetchMovieCatalogCmd: the message made of the movies that aggregateMovieCatalog
\* returned
fetchMovieCatalogMsg(movies) ==
    IF Len(movies) = 0
    THEN movieCatalogMsg(<< >>, "no sessions found in visible theaters", TRUE)
    ELSE movieCatalogMsg(movies, "none", FALSE)

\* the messages a command can deliver. The surroundings tell which commands
\* can succeed (env.ok), find no sessions (env.empty) and fail (env.fail)
Results(task) ==
    LET ok == IF task.cmd \in env.ok THEN {TRUE} ELSE {}
        empty == IF task.cmd \in env.empty THEN {TRUE} ELSE {}
        fail == IF task.cmd \in env.fail THEN {TRUE} ELSE {}
    IN
    CASE task.cmd = "fetchCityByName" ->
            {cityMsg(c, "none") : c \in {x \in Range(NavCities) : ok # {}}}
            \cup {cityMsg(0, Failed) : x \in fail}
      [] task.cmd = "fetchRecentCity" ->
            {cityMsg(task.city, "none") : x \in ok}
            \cup {cityMsg(0, Failed) : x \in fail}
      [] task.cmd = "fetchCities" ->
            {citiesMsg(NavCities, "none") : x \in ok}
            \cup {citiesMsg(<< >>, Failed) : x \in fail}
      [] task.cmd = "fetchTheaters" ->
            {theatersMsg(TheatersOf(task.city), "none") : x \in ok}
            \cup {theatersMsg(<< >>, Failed) : x \in fail}
      [] task.cmd = "fetchSessions" ->
            {fetchSessionsMsg(1, movies, "none") :
                movies \in {x \in env.movies : ok # {}}}
            \cup {fetchSessionsMsg(0, << >>, e) : e \in {x \in {"none", NotFound} : empty # {}}}
            \cup {fetchSessionsMsg(0, << >>, Failed) : x \in fail}
      [] task.cmd = "fetchMovieCatalog" ->
            {fetchMovieCatalogMsg(movies) :
                movies \in {x \in env.movies : ok # {} /\ Len(x) > 0}}
            \cup {fetchMovieCatalogMsg(<< >>) : x \in empty}
      [] task.cmd = "detectLocation" ->
            {locationMsg("none") : x \in ok}
            \cup {locationMsg(Failed) : x \in fail}
      [] task.cmd = "fetchSessionDetails" ->
            {sessionDetailsMsg(sections, "none") :
                sections \in {x \in env.sections : ok # {}}}
            \cup {sessionDetailsMsg(<< >>, Failed) : x \in fail}
      [] task.cmd = "fetchSeatMap" ->
            {seatMapMsg(1, "none") : x \in ok}
            \cup {seatMapMsg(0, Failed) : x \in fail}
      [] task.cmd = "fetchSeatCount" ->
            {seatCountMsg(task.session, seatCount(TRUE, "none")) : x \in ok}
            \cup {seatCountMsg(task.session, seatCount(TRUE, Failed)) :
                    x \in fail}
      [] task.cmd = "err" ->
            {errMsg(task.err, task.returnState, task.returnStateSet,
                    task.suggestNextDay)}
      [] task.cmd = "openURL" ->
            {errMsg(Failed, "LoadingCities", FALSE, FALSE) : x \in fail}
      [] OTHER -> {}

\* the commands of a batch as a bag
RECURSIVE BagOf(_)
BagOf(cmds) ==
    IF cmds = << >> THEN EmptyBag
    ELSE SetToBag({Head(cmds)}) (+) BagOf(Tail(cmds))

\* the files of the store before the program starts
NoFiles == [recentCities |-> << >>, hiddenByCity |-> << >>]

\* no program
IdleNav ==
    /\ app = NewModel
    /\ files = NoFiles
    /\ pending = EmptyBag
    /\ quit = TRUE
    /\ env = [keys |-> {}, ok |-> {}, empty |-> {}, fail |-> {}, cities |-> 0,
              theaters |-> 0, movies |-> {}, sections |-> {}, perPages |-> {},
              io |-> {}, inFlight |-> 0]

\* New() and Init(): the city named by INGRESSO_CITY is looked up, else the most
\* recent city of the history, else the city list is fetched
InitNav(surroundings) ==
    /\ app = NewModel
    /\ \E recents \in {<< >>, <<1>>}   : files = [NoFiles EXCEPT !.recentCities = recents]
    /\ \E first \in {fetchCityByNameCmd}
                    \cup {fetchRecentCityCmd(files.recentCities[1]) : x \in DOMAIN files.recentCities}
                    \cup {fetchCitiesCmd : x \in {1} \ DOMAIN files.recentCities} :
          pending = SetToBag({first})
    /\ quit = FALSE
    /\ env = surroundings

\* one call of Update and what follows from it
NavStep(msg, io, left) ==
    \E r \in {Update(app, files, msg, io)} :
    /\ r.m.date <= MaxDate
    /\ BagCardinality(left) + Len(r.cmds) <= env.inFlight \/ r.cmds = << >>
    /\ app' = r.m
    /\ files' = r.fs
    /\ pending' = left (+) BagOf(r.cmds)
    /\ quit' = r.quit
    /\ UNCHANGED env
    /\ UNCHANGED <<gjVars, stVars, agVars, fxVars, cfVars, locVars, rdVars, scVars>>

\* the outcomes of reading or writing the visibility file, where a handler does
IOs(msg) ==
    IF \/ msg.type = "theatersMsg" /\ msg.err = "none"
       \/ msg.type = "KeyMsg" /\ msg.key \in {"enter", "x"}
                              /\ app.state = "ManageTheaters"
    THEN env.io ELSE {"ok"}

\* a command delivers its message
NavDeliver ==
    /\ ~quit
    /\ \E task \in BagToSet(pending) :
         \E msg \in Results(task) :
            \E io \in IOs(msg) :
                NavStep(msg, io, pending (-) SetToBag({task}))

\* a command ends without a message: the browser was opened
NavCommandEnds ==
    /\ ~quit
    /\ \E task \in BagToSet(pending) :
         /\ task.cmd = "openURL"
         /\ task.cmd \in env.ok
         /\ pending' = pending (-) SetToBag({task})
         /\ UNCHANGED <<app, files, quit, env>>
         /\ UNCHANGED <<gjVars, stVars, agVars, fxVars, cfVars, locVars, rdVars, scVars>>

\* the cursor positions of the current screen, for a key that reads the cursor
Cursors(key) ==
    IF key \notin {"enter", "tab", "x"} THEN {1}
    ELSE IF app.state = "SelectDate" THEN 1..5
    ELSE IF activeList(app) = "" THEN {1}
    ELSE 1..(IF Len(PageItems(app[activeList(app)])) = 0 THEN 1
             ELSE Len(PageItems(app[activeList(app)])))

\* the user presses a key
NavKey ==
    /\ ~quit
    /\ \E key \in env.keys :
         \E cursor \in Cursors(key), io \in IOs(KeyMsg(key, 1)) :
            /\ (key \in RuneKeys \cup {SpaceKey} /\ activeList(app) # "") =>
                    app[activeList(app)].filter < MaxFilter
            /\ NavStep(KeyMsg(key, cursor), io, pending)

\* the terminal is resized
NavResize ==
    /\ ~quit
    /\ \E perPage \in env.perPages :
         NavStep(WindowSizeMsg(perPage), "ok", pending)

NextNav ==
    \/ NavDeliver
    \/ NavCommandEnds
    \/ NavKey
    \/ NavResize

\* the commands
Commands ==
    {"fetchCityByName", "fetchRecentCity", "fetchCities", "fetchTheaters",
     "fetchSessions", "fetchMovieCatalog", "detectLocation", "fetchSessionDetails",
     "fetchSeatMap", "fetchSeatCount", "openURL"}

\* the surroundings of the navigation: the keys that select, go back, open the
\* seat map, detect the location and browse all theaters; every command can
\* fail; one theater, one movie with one session
NavSurroundings ==
    [keys |-> {"esc", "tab", "ctrl+l", "ctrl+f", "enter"},
     ok |-> Commands \ {"detectLocation", "fetchSeatCount"},
     empty |-> {"fetchSessions", "fetchMovieCatalog"},
     fail |-> Commands \ {"openURL"},
     cities |-> 1,
     theaters |-> 1,
     movies |-> { <<MovieItem(<<SessionItem(1, TRUE, TRUE)>>)>> },
     sections |-> {<<1>>},
     perPages |-> {1},
     io |-> {"ok", "fail"},
     inFlight |-> MaxInFlight]

\* the surroundings of the recovery from errors: one more command in flight, so
\* that a message can arrive on another screen than the one that asked for it;
\* the location, the seat counts and the seat map are never obtained
RecoverSurroundings ==
    [keys |-> {"esc", "tab", "ctrl+l", "enter"},
     ok |-> {"fetchCityByName", "fetchRecentCity", "fetchCities", "fetchTheaters",
             "fetchSessions"},
     empty |-> {"fetchSessions"},
     fail |-> {"fetchCities", "fetchTheaters", "fetchSessions", "detectLocation",
               "fetchSessionDetails", "fetchSeatCount"},
     cities |-> 1,
     theaters |-> 1,
     movies |-> { <<MovieItem(<<SessionItem(1, TRUE, TRUE)>>)>> },
     sections |-> {},
     perPages |-> {1},
     io |-> {"ok"},
     inFlight |-> MaxInFlight + 1]

NextRecover ==
    \/ NavDeliver
    \/ NavKey
    \/ NavResize

\* the surroundings of the waiting: those of the navigation, where every
\* command returns a message or ends, without the location lookup and with a
\* visibility file that can be read; the user can quit at any time
LiveSurroundings ==
    [NavSurroundings EXCEPT !.keys = {"esc", "tab", "ctrl+f", "enter", "ctrl+c"},
                            !.io = {"ok"}]

\* the surroundings of the retry on the next day: no sessions are found on any
\* day, in one theater or in all, and the location is never obtained
RetrySurroundings ==
    [keys |-> {"esc", "ctrl+l", "ctrl+f", "enter"},
     ok |-> {"fetchCityByName", "fetchRecentCity", "fetchCities", "fetchTheaters"},
     empty |-> {"fetchSessions", "fetchMovieCatalog"},
     fail |-> {"detectLocation"},
     cities |-> 1,
     theaters |-> 1,
     movies |-> {},
     sections |-> {},
     perPages |-> {1},
     io |-> {"ok"},
     inFlight |-> MaxInFlight + 1]

\* the surroundings of the seat counts: a movie with three sessions, the second
\* of which a typed filter hides and the third of which sells no seats; pages of
\* one or two sessions; the keys that select, go back, type, erase and turn the
\* page
SeatSurroundings ==
    [keys |-> {"enter", "esc", "a", "backspace", "right", "left"},
     ok |-> {"fetchCityByName", "fetchRecentCity", "fetchCities", "fetchTheaters",
             "fetchSessions", "fetchSeatCount"},
     empty |-> {},
     fail |-> {"fetchSeatCount"},
     cities |-> 1,
     theaters |-> 1,
     movies |-> { <<MovieItem(<<SessionItem(1, TRUE, TRUE),
                               SessionItem(2, TRUE, FALSE),
                               SessionItem(3, FALSE, TRUE)>>)>> },
     sections |-> {},
     perPages |-> {1, 2},
     io |-> {"ok"},
     inFlight |-> MaxInFlight + 1]

\* the surroundings of the filters and the shortcuts: every screen but the date
\* picker is reached (two sections to choose from, a seat map, the theaters to
\* manage, an error), and the keys are what a user types into a filter, the keys
\* that move forward and back, and q and x, which are shortcuts as well as letters
FilterSurroundings ==
    [keys |-> {"enter", "esc", "tab", "ctrl+t", "ctrl+c", "q", "x", SpaceKey,
               "backspace"},
     ok |-> {"fetchCityByName", "fetchRecentCity", "fetchCities", "fetchTheaters",
             "fetchSessions", "fetchSeatCount", "fetchSessionDetails", "fetchSeatMap",
             "openURL"},
     empty |-> {},
     fail |-> {"fetchCityByName", "fetchRecentCity", "fetchSeatMap"},
     cities |-> 1,
     theaters |-> 1,
     movies |-> { <<MovieItem(<<SessionItem(1, TRUE, TRUE)>>)>> },
     sections |-> {<<1, 2>>},
     perPages |-> {1},
     io |-> {"ok"},
     inFlight |-> MaxInFlight]

\* the surroundings of the seat map: a session's details name no section that
\* sells seats, one, or two; the details, the seat map and the browser can fail,
\* and a second command can be in flight while the details are awaited
SectionSurroundings ==
    [keys |-> {"enter", "esc", "tab"},
     ok |-> {"fetchCityByName", "fetchRecentCity", "fetchCities", "fetchTheaters",
             "fetchSessions", "fetchSeatCount", "fetchSessionDetails", "fetchSeatMap",
             "openURL"},
     empty |-> {},
     fail |-> {"fetchSessionDetails", "fetchSeatMap", "openURL"},
     cities |-> 1,
     theaters |-> 1,
     movies |-> { <<MovieItem(<<SessionItem(1, TRUE, TRUE)>>)>> },
     sections |-> {<< >>, <<1>>, <<1, 2>>},
     perPages |-> {1},
     io |-> {"ok"},
     inFlight |-> MaxInFlight + 1]

\* the surroundings of the theater preferences: two theaters to hide and to show
\* again, the visibility file can fail to be read and written, and the movies of
\* all visible theaters can be asked for
ManageSurroundings ==
    [keys |-> {"enter", "esc", "ctrl+t", "ctrl+f"},
     ok |-> {"fetchCityByName", "fetchRecentCity", "fetchCities", "fetchTheaters"},
     empty |-> {"fetchMovieCatalog"},
     fail |-> {"fetchSessions"},
     cities |-> 1,
     theaters |-> 2,
     movies |-> {},
     sections |-> {},
     perPages |-> {1},
     io |-> {"ok", "fail"},
     inFlight |-> MaxInFlight]

\* the surroundings of a change of city: two cities with a theater each, the
\* location is asked for and never obtained, the visibility file can fail to be
\* read, and a second command can be in flight while the theaters are awaited
CitySurroundings ==
    [keys |-> {"enter", "esc", "ctrl+l"},
     ok |-> {"fetchCityByName", "fetchRecentCity", "fetchCities", "fetchTheaters"},
     empty |-> {},
     fail |-> {"detectLocation", "fetchSessions"},
     cities |-> 2,
     theaters |-> 1,
     movies |-> {},
     sections |-> {},
     perPages |-> {1},
     io |-> {"ok", "fail"},
     inFlight |-> MaxInFlight + 1]

\* the surroundings of the date picker: ctrl+d opens it, on a screen or from an
\* error; sessions are found, not found, or the fetch fails, for one theater and
\* for all
DateSurroundings ==
    [keys |-> {"enter", "esc", "ctrl+d", "ctrl+f"},
     ok |-> {"fetchCityByName", "fetchRecentCity", "fetchCities", "fetchTheaters",
             "fetchSessions", "fetchMovieCatalog", "fetchSeatCount", "openURL"},
     empty |-> {"fetchSessions", "fetchMovieCatalog"},
     fail |-> {"fetchSessions"},
     cities |-> 1,
     theaters |-> 1,
     movies |-> { <<MovieItem(<<SessionItem(1, TRUE, TRUE)>>)>> },
     sections |-> {},
     perPages |-> {1},
     io |-> {"ok"},
     inFlight |-> MaxInFlight]

----------------------------------------------------------------------------
(***************************************************************************)
(* The commands that consult the cache before the gateway (tui/app.go):    *)
(* fetchCitiesCmd, fetchTheatersCmd, fetchSessionsCmd, fetchRecentCityCmd. *)
(* Each action is one run of a command's closure; the gateway's answer is  *)
(* an input of the run.                                                    *)
(***************************************************************************)

\* model.City and store.RecentCity
City(id, name, uf) == [Id |-> id, Name |-> name, Uf |-> uf]
ZeroCity == City("", "", "")
RecentCity(id, name, uf) == [ID |-> id, Name |-> name, UF |-> uf]

\* strings.EqualFold on the strings that occur
EqualFold(a, b) == ToLower(a) = ToLower(b)

\* the lists the gateway knows
GatewayCities == <<City("1", "Campinas", "SP"), City("2", "Santos", "SP")>>
GatewayTheaters(cityID) == <<cityID * 10 + 1, cityID * 10 + 2>>
GatewayDays == <<TheaterSessionDay(FormatDateOnly(0), <<MovieY(1)>>)>>

\* what a call of the gateway answers: the list, nothing, or a failure
GatewayAnswers(list, errors) ==
    {[data |-> Slice(list), err |-> NoErr], [data |-> NilSlice, err |-> NoErr]}
    \cup {[data |-> NilSlice, err |-> e] : e \in errors}

\* what a run of a command did: the message's payload and error, where the payload
\* came from, the cache file of the command afterwards
FetchRun(data, err, source, file) ==
    [data |-> data, err |-> err, source |-> source, file |-> file]

\* cityFromRecentCache: the first cached city with the id, or with the name and
\* (if the entry has one) the state, of the remembered city
cityFromRecentCache(recent) ==
    LET c == LoadCityCache
        recentID == TrimSpace(recent.ID)
        recentName == TrimSpace(recent.Name)
        recentUF == TrimSpace(recent.UF)
        hit(city) ==
            \/ recentID # "" /\ city.Id = recentID
            \/ /\ recentName # ""
               /\ EqualFold(city.Name, recentName)
               /\ (recentUF = "" \/ EqualFold(city.Uf, recentUF))
        hits == {i \in 1..len(c.data) : hit(c.data.elems[i])}
    IN  IF c.err # "none" \/ len(c.data) = 0 \/ hits = {}
        THEN [city |-> ZeroCity, ok |-> FALSE]
        ELSE [city |-> c.data.elems[CHOOSE i \in hits : \A j \in hits : i <= j],
              ok |-> TRUE]

\* the closure of fetchRecentCityCmd; a is the answer of GetCityInfoByName
runFetchRecentCity(recent, a) ==
    LET r == cityFromRecentCache(recent)
        file == disk[cachePathCities]
    IN  IF r.ok THEN FetchRun(r.city, NoErr, "cache", file)
        ELSE IF TrimSpace(recent.Name) = ""
        THEN FetchRun(ZeroCity, "recent city not found", "none", file)
        ELSE IF a.err # NoErr THEN FetchRun(ZeroCity, a.err, "gateway", file)
        ELSE FetchRun(a.city, NoErr, "gateway", file)

\* the closure of fetchCitiesCmd; a is the answer of GetCities
runFetchCities(a) ==
    LET c == LoadCityCache
        file == disk[cachePathCities]
    IN  IF c.err = "none" /\ c.fresh /\ len(c.data) > 0
        THEN FetchRun(c.data, NoErr, "cache", file)
        ELSE FetchRun(a.data, a.err, "gateway",
                      IF a.err = NoErr /\ len(a.data) > 0 THEN saveCache(a.data)
                      ELSE file)

\* the closure of fetchTheatersCmd; a is the answer of GetTheatersByCity
runFetchTheaters(cityID, a) ==
    LET c == LoadTheaterCache(cityID)
        file == disk[cachePathTheaters(cityID)]
    IN  IF c.err = "none" /\ c.fresh /\ len(c.data) > 0
        THEN FetchRun(c.data, NoErr, "cache", file)
        ELSE FetchRun(a.data, a.err, "gateway",
                      IF a.err = NoErr /\ len(a.data) > 0 THEN saveCache(a.data)
                      ELSE file)

\* the closure of fetchSessionsCmd; a is the answer of GetSessionsByCityAndTheater
runFetchSessions(cityID, theaterID, date, a) ==
    LET r == loadSessionsAnswered(cityID, theaterID, date,
                                  [days |-> a.data, err |-> a.err])
    IN  IF r.err # NoErr
        THEN FetchRun(NilSlice, IF IsNotFound(r.err) THEN NoErr ELSE r.err,
                      r.source, r.file)
        ELSE FetchRun(r.days, NoErr, r.source, r.file)

NoFetch ==
    [cmd |-> "none", path |-> cachePathCities, source |-> "none", data |-> NilSlice,
     err |-> NoErr, entry |-> NoSave, at |-> 0]

\* no command has run
IdleFetch == fetched = NoFetch

\* a cache file that holds an empty list, written at time 0
EmptyFile ==
    [exists |-> TRUE, updated_at |-> TimeAt(0), data |-> MarshalSlice(Slice(<< >>))]

\* before the first command: the cache files are absent, or hold empty lists
InitFetch ==
    /\ \E empty \in BOOLEAN :
        /\ disk = [p \in CachePaths |-> IF empty THEN EmptyFile ELSE NoFile]
        /\ stSaved = [p \in CachePaths |->
                        IF empty THEN [saved |-> TRUE, data |-> Slice(<< >>), at |-> 0]
                        ELSE NoSave]
    /\ now = 0
    /\ stSaves = 0
    /\ stTicks = 0
    /\ stLast = NoLoad
    /\ fetched = NoFetch

\* a command ran: its cache file is as the run left it
Fetch(cmd, path, r) ==
    /\ fetched' = [cmd |-> cmd, path |-> path, source |-> r.source, data |-> r.data,
                   err |-> r.err, entry |-> stSaved[path], at |-> now]
    /\ disk' = [disk EXCEPT ![path] = r.file]
    /\ stSaved' = IF r.file = disk[path] THEN stSaved
                  ELSE [stSaved EXCEPT ![path] =
                           [saved |-> TRUE, data |-> r.data, at |-> now]]
    /\ UNCHANGED <<now, stSaves, stTicks, stLast>>
    /\ UNCHANGED <<gjVars, agVars, navVars, cfVars, locVars, rdVars, scVars>>

FetchCities ==
    \E a \in GatewayAnswers(GatewayCities, {ErrOther}) :
        Fetch("fetchCities", cachePathCities, runFetchCities(a))

FetchTheaters ==
    \E cityID \in {1} :
        \E a \in GatewayAnswers(GatewayTheaters(cityID), {ErrOther}) :
            Fetch("fetchTheaters", cachePathTheaters(cityID),
                  runFetchTheaters(cityID, a))

FetchSessions ==
    \E a \in GatewayAnswers(GatewayDays, {ErrOther, ErrNotFound}) :
        Fetch("fetchSessions", cachePathSessions(1, 1, 0), runFetchSessions(1, 1, 0, a))

\* the remembered cities the startup resolves: by id, by name in another case, by a
\* name the cache does not hold, and one with neither id nor name in the cache
RecentCities ==
    {RecentCity("1", "Campinas", "SP"), RecentCity("", "CAMPINAS", ""),
     RecentCity("", "Santos", "RJ"), RecentCity("9", "", "")}

FetchRecentCity ==
    \E recent \in RecentCities :
        \E a \in {[city |-> GatewayCities[1], err |-> NoErr],
                  [city |-> ZeroCity, err |-> ErrOther]} :
            Fetch("fetchRecentCity", cachePathCities, runFetchRecentCity(recent, a))

NextFetch ==
    \/ FetchCities
    \/ FetchTheaters
    \/ FetchSessions
    \/ FetchRecentCity
    \/ ClockTick

----------------------------------------------------------------------------
(***************************************************************************)
(* The store package: the visibility file and the history files, as the    *)
(* functions of the package read and write them. Ids and names are         *)
(* strings; a file holds what was marshalled into it. (The navigation      *)
(* above uses these functions on ids that need no trimming, with a set for *)
(* the hidden theaters of a city.)                                         *)
(***************************************************************************)

\* the byte order of the theater ids that occur
StringRank(s) == CASE s = "11" -> 1 [] s = "12" -> 2 [] OTHER -> 3

RECURSIVE InsertSorted(_, _)
InsertSorted(s, x) ==
    IF s = << >> THEN <<x>>
    ELSE IF StringRank(x) < StringRank(Head(s)) THEN <<x>> \o s
    ELSE <<Head(s)>> \o InsertSorted(Tail(s), x)

\* a list left in the order it has
KeepOrder(s) == s

\* sort.Strings
RECURSIVE SortStrings(_)
SortStrings(s) ==
    IF s = << >> THEN << >>
    ELSE InsertSorted(SortStrings(SubSeq(s, 1, Len(s) - 1)), s[Len(s)])

\* theater_visibility.json before it is written
NoVisibility == [exists |-> FALSE, HiddenByCity |-> << >>]

\* loadTheaterVisibility: the map hidden_by_city; a missing file is an empty map
loadTheaterVisibility(file) == IF file.exists THEN file.HiddenByCity ELSE << >>

\* visibility.HiddenByCity[cityID]: a key the map lacks reads as a nil slice
HiddenOf(m, cityID) == IF cityID \in DOMAIN m THEN m[cityID] ELSE << >>

\* LoadHiddenTheaters: the set of the ids hidden for the city
loadHiddenTheaters(file, cityID) ==
    IF TrimSpace(cityID) = "" THEN {}
    ELSE {t \in Range(HiddenOf(loadTheaterVisibility(file), cityID)) : t # ""}

\* SetTheaterHidden: the file afterwards, and the error returned
setTheaterHidden(file, city, theater, hidden) ==
    LET cityID == TrimSpace(city)
        theaterID == TrimSpace(theater)
        m == loadTheaterVisibility(file)
        current == HiddenOf(m, cityID)
        found == {i \in 1..Len(current) : current[i] = theaterID}
        index == IF found = {} THEN -1
                 ELSE (CHOOSE i \in found : \A j \in found : i <= j) - 1
        next == IF hidden
                THEN (IF index < 0 THEN Append(current, theaterID) ELSE current)
                ELSE IF index >= 0
                THEN SubSeq(current, 1, index) \o SubSeq(current, index + 2, Len(current))
                ELSE current
    IN  IF cityID = "" \/ theaterID = ""
        THEN [file |-> file, err |-> "city id and theater id are required"]
        ELSE [file |-> [exists |-> TRUE,
                        HiddenByCity |->
                            IF Len(next) = 0
                            THEN [c \in DOMAIN m \ {cityID} |-> m[c]]
                            ELSE (cityID :> SortStrings(next)) @@ m],
              err |-> "none"]

\* the arguments of the calls: ids of two cities and two theaters, an id with a
\* leading blank, an empty and a blank id
CityArgs == {"1", "2", " 1", ""}
TheaterArgs == {"11", "12", " 11", " "}

NoVisLoad == [called |-> FALSE, city |-> "", hidden |-> {}]

\* stringsEqualFold
stringsEqualFold(a, b) == a # "" /\ b # "" /\ EqualFold(a, b)

\* model.Theater and store.RecentTheater
Theater(id, name) == [Id |-> id, Name |-> name]
RecentTheater(cityID, theaterID, name) ==
    [CityID |-> cityID, TheaterID |-> theaterID, Name |-> name]

\* every entry appended
appendAll(next, rest, cap) == next \o rest

\* the loop of RememberCity and RememberTheater over the entries it does not skip:
\* append, and stop once next holds cap entries
RECURSIVE appendUntil(_, _, _)
appendUntil(next, rest, cap) ==
    IF rest = << >> THEN next
    ELSE LET n == Append(next, Head(rest)) IN
         IF Len(n) >= cap THEN n ELSE appendUntil(n, Tail(rest), cap)

maxRecentTheater == 8

\* the city put behind the others
rememberCityAtTail(history, city) ==
    Append(history, RecentCity(city.Id, city.Name, city.Uf))

\* RememberCity: the list saved to history.json
rememberCity(history, city) ==
    LET skip(existing) ==
            \/ existing.ID = city.Id /\ existing.ID # ""
            \/ /\ existing.Name # ""
               /\ stringsEqualFold(existing.Name, city.Name)
               /\ stringsEqualFold(existing.UF, city.Uf)
    IN  appendUntil(<<RecentCity(city.Id, city.Name, city.Uf)>>,
                    KeepSeq(history, [i \in 1..Len(history) |-> ~skip(history[i])]),
                    maxRecentCities)

\* RememberTheater: the list saved to theaters.json
rememberTheater(history, cityID, theater) ==
    LET skip(existing) ==
            \/ /\ existing.CityID = cityID
               /\ existing.TheaterID = theater.Id
               /\ existing.TheaterID # ""
            \/ /\ existing.Name # ""
               /\ stringsEqualFold(existing.Name, theater.Name)
               /\ existing.CityID = cityID
    IN  appendUntil(<<RecentTheater(cityID, theater.Id, theater.Name)>>,
                    KeepSeq(history, [i \in 1..Len(history) |-> ~skip(history[i])]),
                    maxRecentTheater)

\* startupRecentCity, of the list that LoadRecentCities returns: (recent, ok)
startupRecentCity(recents) ==
    IF Len(recents) = 0 THEN [recent |-> RecentCity("", "", ""), ok |-> FALSE]
    ELSE IF TrimSpace(recents[1].ID) = "" /\ TrimSpace(recents[1].Name) = ""
    THEN [recent |-> RecentCity("", "", ""), ok |-> FALSE]
    ELSE [recent |-> recents[1], ok |-> TRUE]

\* the configuration directory before any file is written
IdleConfig ==
    /\ visibility = NoVisibility
    /\ visCalls = [c \in {"1", "2"} |-> [t \in {"11", "12"} |-> "none"]]
    /\ visLoaded = NoVisLoad
    /\ cityHist = << >>
    /\ theaterHist = << >>

\* SetTheaterHidden is called
VisSetTheaterHidden ==
    \E city \in CityArgs, theater \in TheaterArgs, hidden \in BOOLEAN :
        \E r \in {setTheaterHidden(visibility, city, theater, hidden)} :
            /\ visibility' = r.file
            /\ visCalls' =
                 IF r.err # "none" THEN visCalls
                 ELSE [visCalls EXCEPT ![TrimSpace(city)][TrimSpace(theater)] =
                          IF hidden THEN "hide" ELSE "show"]
            /\ visLoaded' = NoVisLoad
            /\ UNCHANGED <<cityHist, theaterHist>>
            /\ UNCHANGED <<gjVars, stVars, agVars, navVars, fxVars, locVars, rdVars, scVars>>

\* LoadHiddenTheaters is called
VisLoadHiddenTheaters ==
    \E city \in CityArgs :
        /\ visLoaded' = [called |-> TRUE, city |-> city,
                         hidden |-> loadHiddenTheaters(visibility, city)]
        /\ UNCHANGED <<visibility, visCalls, cityHist, theaterHist>>
        /\ UNCHANGED <<gjVars, stVars, agVars, navVars, fxVars, locVars, rdVars, scVars>>

NextVisibility == VisSetTheaterHidden \/ VisLoadHiddenTheaters

\* the number of cities, and of theaters, that are remembered for the first time
MaxFresh == 9

\* the number of entries of the city list of which nothing is known
MaxBlank == 1

IdStrings == <<"1", "2", "3", "4", "5", "6", "7", "8", "9", "10", "11", "12">>

\* the k-th city and the k-th theater (of city 1) as the API names them
FreshCity(k) == City(IdStrings[k], "city " \o IdStrings[k], "SP")
FreshTheater(k) == Theater(IdStrings[k], "cine " \o IdStrings[k])

\* the number of the newest entry that carries a number (0 for none)
NewestFresh(ids) ==
    LET at == {i \in 1..Len(ids) : \E k \in 1..Len(IdStrings) : ids[i] = IdStrings[k]}
    IN  IF at = {} THEN 0
        ELSE CHOOSE k \in 1..Len(IdStrings) :
                ids[CHOOSE i \in at : \A j \in at : i <= j] = IdStrings[k]

\* the cities remembered: the next new city; city 1 again, under a name in another
\* case; a city without id whose name and state are those of city 1 in another
\* case; a city of which only the name is known; and, while the list holds fewer
\* than MaxBlank such entries, a city of which nothing is known
CityCalls ==
    {FreshCity(k) : k \in {NewestFresh([i \in 1..Len(cityHist) |-> cityHist[i].ID]) + 1}
                             \cap 1..MaxFresh}
    \cup {City("1", "CITY 1", "SP"), City("", "CITY 1", "sp"), City("", "Campinas", "")}
    \cup {City("", "", "") : x \in {i \in {1} :
            Cardinality({j \in DOMAIN cityHist : cityHist[j] = RecentCity("", "", "")})
                < MaxBlank}}

\* the theaters remembered, all of city 1: the next new theater; theater 1 again
\* under a name in another case; a theater without id named as theater 1; a
\* theater of which nothing is known
TheaterCalls ==
    {FreshTheater(k) :
        k \in {NewestFresh([i \in 1..Len(theaterHist) |-> theaterHist[i].TheaterID]) + 1}
                \cap 1..MaxFresh}
    \cup {Theater("1", "CINE 1"), Theater("", "CINE 1"), Theater("", "")}

\* RememberCity is called. It reads and writes history.json only, RememberTheater
\* theaters.json only: a run follows the calls on one of the two files.
HistRememberCity ==
    \E city \in CityCalls :
        /\ theaterHist = << >>
        /\ cityHist' = rememberCity(cityHist, city)
        /\ UNCHANGED <<visibility, visCalls, visLoaded, theaterHist>>
        /\ UNCHANGED <<gjVars, stVars, agVars, navVars, fxVars, locVars, rdVars, scVars>>

\* RememberTheater is called
HistRememberTheater ==
    \E theater \in TheaterCalls :
        /\ cityHist = << >>
        /\ theaterHist' = rememberTheater(theaterHist, "1", theater)
        /\ UNCHANGED <<visibility, visCalls, visLoaded, cityHist>>
        /\ UNCHANGED <<gjVars, stVars, agVars, navVars, fxVars, locVars, rdVars, scVars>>

NextHistory == HistRememberCity \/ HistRememberTheater

----------------------------------------------------------------------------
(***************************************************************************)
(* service.DetectCurrentLocation (service/location.go): the system lookup, *)
(* then the loop over the providers. An error is [is, text]: what          *)
(* errors.Is finds in its chain ("canceled", "deadline" or "other") and    *)
(* its message; the message of a wrapped error names the wrapper.          *)
(***************************************************************************)

\* UserLocation
UserLocation(lat, lng, source) == [Latitude |-> lat, Longitude |-> lng, Source |-> source]
ZeroLocation == UserLocation(0, 0, "")

LocErr(is, text) == [is |-> is, text |-> text]
NoLocErr == LocErr("none", "")

\* the providers in the opposite order
providersReversed == <<"ipinfo", "ipwhois", "ipapi">>

\* defaultLocationProviders, by name
defaultLocationProviders == <<"ipapi", "ipwhois", "ipinfo">>

\* what detectSystemLocationFn returns: a location (tagged "system" by the macOS
\* lookup, untagged by another), an error of the lookup, or the context's error
SystemAnswers ==
    {[location |-> UserLocation(1, 1, src), err |-> NoLocErr] : src \in {"", "system"}}
    \cup {[location |-> ZeroLocation, err |-> LocErr(is, "system")] :
            is \in {"other", "canceled", "deadline"}}

\* what a provider does: httpClient.Do fails (the cause may be the context's
\* error), the status is not 2xx, or parse returns a location (with or without a
\* source, with or without coordinates) or an error
ProviderAnswers ==
    {[kind |-> "do", location |-> ZeroLocation, err |-> LocErr(is, "transport")] :
        is \in {"other", "canceled", "deadline"}}
    \cup {[kind |-> "status", location |-> ZeroLocation, err |-> LocErr("other", "403")]}
    \cup {[kind |-> "parsed", location |-> UserLocation(c, c, src), err |-> NoLocErr] :
            c \in {0, 1}, src \in {"", " ", "payload"}}
    \cup {[kind |-> "parsed", location |-> ZeroLocation, err |-> LocErr("other", "decode")]}

\* errors.Is(err, context.Canceled), never a deadline
isCanceledOnly(err) == err.is = "canceled"

\* errors.Is(err, context.Canceled) || errors.Is(err, context.DeadlineExceeded)
isContextError(err) == err.is \in {"canceled", "deadline"}

\* detectCurrentLocationFromProvider: (location, error)
detectCurrentLocationFromProvider(name, a) ==
    CASE a.kind = "do" ->
            [location |-> ZeroLocation,
             err |-> LocErr(a.err.is, "location request failed: " \o a.err.text)]
      [] a.kind = "status" -> [location |-> ZeroLocation, err |-> a.err]
      [] a.err # NoLocErr -> [location |-> ZeroLocation, err |-> a.err]
      [] a.location.Latitude = 0 /\ a.location.Longitude = 0 ->
            [location |-> ZeroLocation,
             err |-> LocErr("other", "provider returned empty coordinates")]
      [] OTHER ->
            [location |-> IF TrimSpace(a.location.Source) = ""
                          THEN [a.location EXCEPT !.Source = TrimSpace(name)]
                          ELSE a.location,
             err |-> NoLocErr]

NoLocResult == [location |-> ZeroLocation, err |-> NoLocErr]

\* no call of DetectCurrentLocation
IdleLocation ==
    /\ locPc = "done"
    /\ locAnswers = << >>
    /\ locNext = 1
    /\ locContacted = << >>
    /\ locErrors = << >>
    /\ locResult = NoLocResult

\* DetectCurrentLocation is called; every service answers in one of its ways
InitLocation ==
    /\ locPc = "system"
    /\ \E sys \in SystemAnswers :
         \E ans \in [{"ipapi", "ipwhois", "ipinfo"} -> ProviderAnswers] :
            locAnswers = ("system" :> sys) @@ ans
    /\ locNext = 1
    /\ locContacted = << >>
    /\ locErrors = << >>
    /\ locResult = NoLocResult

\* DetectCurrentLocation up to the call of detectCurrentLocationWithProviders
LocSystem ==
    /\ locPc = "system"
    /\ locContacted' = Append(locContacted, "system")
    /\ LET a == locAnswers["system"] IN
       IF a.err = NoLocErr
       THEN /\ locResult' =
                 [location |-> IF TrimSpace(a.location.Source) = ""
                               THEN [a.location EXCEPT !.Source = "system"]
                               ELSE a.location,
                  err |-> NoLocErr]
            /\ locPc' = "done"
       ELSE IF isContextError(a.err)
       THEN /\ locResult' = [location |-> ZeroLocation, err |-> a.err]
            /\ locPc' = "done"
       ELSE /\ locResult' = locResult
            /\ locPc' = "providers"
    /\ UNCHANGED <<locAnswers, locNext, locErrors>>
    /\ UNCHANGED <<gjVars, stVars, agVars, navVars, fxVars, cfVars, rdVars, scVars>>

\* one iteration of the loop of detectCurrentLocationWithProviders
LocProvider ==
    /\ locPc = "providers"
    /\ locNext <= Len(defaultLocationProviders)
    /\ LET name == defaultLocationProviders[locNext]
           r == detectCurrentLocationFromProvider(name, locAnswers[name])
       IN  /\ locContacted' = Append(locContacted, name)
           /\ IF r.err = NoLocErr
              THEN /\ locResult' = r
                   /\ locPc' = "done"
                   /\ UNCHANGED <<locNext, locErrors>>
              ELSE IF isContextError(r.err)
              THEN /\ locResult' = [location |-> ZeroLocation, err |-> r.err]
                   /\ locPc' = "done"
                   /\ UNCHANGED <<locNext, locErrors>>
              ELSE /\ locErrors' = Append(locErrors, name \o ": " \o r.err.text)
                   /\ locNext' = locNext + 1
                   /\ UNCHANGED <<locPc, locResult>>
    /\ UNCHANGED locAnswers
    /\ UNCHANGED <<gjVars, stVars, agVars, navVars, fxVars, cfVars, rdVars, scVars>>

\* the loop is over: every provider failed, and so does the call
LocAllFailed ==
    /\ locPc = "providers"
    /\ locNext > Len(defaultLocationProviders)
    /\ locResult' =
         [location |-> ZeroLocation,
          err |-> LocErr("other", "system location failed; ip fallback failed")]
    /\ locPc' = "done"
    /\ UNCHANGED <<locAnswers, locNext, locContacted, locErrors>>
    /\ UNCHANGED <<gjVars, stVars, agVars, navVars, fxVars, cfVars, rdVars, scVars>>

NextLocation == LocSystem \/ LocProvider \/ LocAllFailed

----------------------------------------------------------------------------
(***************************************************************************)
(* Client.retryDelay (service/tickets.go). A time.Duration counts          *)
(* nanoseconds in a signed integer; here the integer has 32 bits (the      *)
(* code's has 64), and a product that leaves the range wraps around.       *)
(***************************************************************************)

Millisecond == 1000000
defaultRetryBase == 200 * Millisecond
defaultRetryCap == 1200 * Millisecond

\* the largest Duration
MaxDuration == 2147483647

\* largest attempt number retryDelay is called with
MaxDelayAttempt == 5

\* delay *= 2 in the width of a Duration, for a positive delay
Double(delay) ==
    IF delay > MaxDuration - delay
    THEN (delay - MaxDuration - 1) + (delay - MaxDuration - 1)
    ELSE delay + delay

\* cap / 2: Go's division truncates toward zero
Half(cap) == IF cap >= 0 THEN cap \div 2 ELSE -((-cap) \div 2)

\* the values of c.retryBase and c.retryCap a client is configured with: unset or
\* negative (the default applies), a few nanoseconds, the tests' and the default
\* values, and values at the end of the range
RetryBases ==
    {-1, 0, 1, 2, 3, 5, Millisecond, defaultRetryBase, 1073741823, MaxDuration}
RetryCaps ==
    {-1, 0, 1, 2, 3, 4, 7, 8, 2 * Millisecond, defaultRetryCap, MaxDuration - 1,
     MaxDuration}

NoDelay == [attempt |-> 0, base |-> 0, cap |-> 0, i |-> 0, delay |-> 0, ret |-> 0]

\* no call of retryDelay
IdleDelay ==
    /\ rdPc = "returned"
    /\ rdIn = [attempt |-> 1, retryBase |-> defaultRetryBase,
               retryCap |-> defaultRetryCap]
    /\ rd = NoDelay

\* retryDelay is called
InitDelay ==
    /\ rdPc = "enter"
    /\ rdIn \in [attempt : 0..MaxDelayAttempt, retryBase : RetryBases,
                 retryCap : RetryCaps]
    /\ rd = NoDelay

\* retryDelay up to the loop: the defaults, delay := base, i := 1
RetryDelayEnter ==
    /\ rdPc = "enter"
    /\ LET base == IF rdIn.retryBase <= 0 THEN defaultRetryBase ELSE rdIn.retryBase
       IN  rd' = [attempt |-> IF rdIn.attempt < 1 THEN 1 ELSE rdIn.attempt,
                  base |-> base,
                  cap |-> IF rdIn.retryCap <= 0 THEN defaultRetryCap ELSE rdIn.retryCap,
                  i |-> 1, delay |-> base, ret |-> 0]
    /\ rdPc' = "loop"
    /\ UNCHANGED rdIn
    /\ UNCHANGED <<gjVars, stVars, agVars, navVars, fxVars, cfVars, locVars, scVars>>

\* one iteration of the loop
RetryDelayDouble ==
    /\ rdPc = "loop"
    /\ rd.i < rd.attempt
    /\ IF rd.delay >= Half(rd.cap)
       THEN /\ rd' = [rd EXCEPT !.ret = rd.cap]
            /\ rdPc' = "returned"
       ELSE /\ rd' = [rd EXCEPT !.delay = Double(rd.delay), !.i = rd.i + 1]
            /\ rdPc' = "loop"
    /\ UNCHANGED rdIn
    /\ UNCHANGED <<gjVars, stVars, agVars, navVars, fxVars, cfVars, locVars, scVars>>

\* after the loop
RetryDelayReturn ==
    /\ rdPc = "loop"
    /\ rd.i >= rd.attempt
    /\ rd' = [rd EXCEPT !.ret = IF rd.delay > rd.cap THEN rd.cap ELSE rd.delay]
    /\ rdPc' = "returned"
    /\ UNCHANGED rdIn
    /\ UNCHANGED <<gjVars, stVars, agVars, navVars, fxVars, cfVars, locVars, scVars>>

NextDelay == RetryDelayEnter \/ RetryDelayDouble \/ RetryDelayReturn

(***************************************************************************)
(* computeSeatCounts (tui/app.go): the seats of a seat map counted by      *)
(* status, the front rows, and the adjacent pairs of available seats.      *)
(***************************************************************************)

\* model.Seat: the fields the count reads
Seat(line, column, status) == [Line |-> line, Column |-> column, Status |-> status]

\* the seats in the order of the two nested loops over seatMap.Lines and
\* line.Seats
RECURSIVE SeatsOf(_)
SeatsOf(lines) ==
    IF lines = << >> THEN << >> ELSE Head(lines).Seats \o SeatsOf(Tail(lines))

\* a list left as it is
KeepInts(list) == list

RECURSIVE InsertInt(_, _)
InsertInt(x, sorted) ==
    IF sorted = << >> THEN <<x>>
    ELSE IF x <= Head(sorted) THEN <<x>> \o sorted
    ELSE <<Head(sorted)>> \o InsertInt(x, Tail(sorted))

\* sort.Ints
RECURSIVE SortInts(_)
SortInts(list) ==
    IF list = << >> THEN << >> ELSE InsertInt(Head(list), SortInts(Tail(list)))

\* the keys of a map[int]bool, appended in some order and sorted
RECURSIVE SortedKeys(_)
SortedKeys(S) ==
    IF S = {} THEN << >>
    ELSE LET k == CHOOSE x \in S : TRUE
         IN  InsertInt(k, SortedKeys(S \ {k}))

\* the first `count` rows instead of the last
frontLineSetLowest(seatMap, count) ==
    LET seats == SeatsOf(seatMap.Lines)
        keys == SortedKeys({seats[i].Line : i \in {j \in DOMAIN seats : seats[j].Line > 0}})
        n == IF count > Len(keys) THEN Len(keys) ELSE count
    IN  {keys[i] : i \in 1..n}

\* frontLineSet: the set of the keys that map to true
frontLineSet(seatMap, count) ==
    LET seats == SeatsOf(seatMap.Lines)
        keys == SortedKeys({seats[i].Line : i \in {j \in DOMAIN seats : seats[j].Line > 0}})
        n == IF count > Len(keys) THEN Len(keys) ELSE count
    IN  {keys[i] : i \in (Len(keys) - n + 1)..Len(keys)}

\* a loop that steps by one after a pair
RECURSIVE overlappingPairs(_, _)
overlappingPairs(list, i) ==
    IF i >= Len(list) THEN << >>
    ELSE IF list[i] + 1 = list[i + 1]
         THEN <<<<list[i], list[i + 1]>>>> \o overlappingPairs(list, i + 1)
         ELSE overlappingPairs(list, i + 1)

\* the inner loop of countAdjacentPairsFromCols over a sorted list, i counted
\* from 1: the pairs of columns it counts, in order
RECURSIVE greedyPairs(_, _)
greedyPairs(list, i) ==
    IF i >= Len(list) THEN << >>
    ELSE IF list[i] + 1 = list[i + 1]
         THEN <<<<list[i], list[i + 1]>>>> \o greedyPairs(list, i + 2)
         ELSE greedyPairs(list, i + 1)

\* the pairs counted in one row
rowPairs(list) == greedyPairs(SortInts(list), 1)

\* countAdjacentPairsFromCols: cols maps a row to its list of columns
RECURSIVE countAdjacentPairsOver(_, _)
countAdjacentPairsOver(cols, rows) ==
    IF rows = {} THEN 0
    ELSE LET r == CHOOSE x \in rows : TRUE
         IN  Len(rowPairs(cols[r])) + countAdjacentPairsOver(cols, rows \ {r})

countAdjacentPairsFromCols(cols) == countAdjacentPairsOver(cols, DOMAIN cols)

\* the columns appended to availableCols[line], in the order of the seats
RECURSIVE columnsOfLine(_, _)
columnsOfLine(seats, line) ==
    IF seats = << >> THEN << >>
    ELSE (IF /\ ToLower(Head(seats).Status) = "available"
             /\ Head(seats).Column > 0
             /\ Head(seats).Line = line
          THEN <<Head(seats).Column>> ELSE << >>)
         \o columnsOfLine(Tail(seats), line)

\* availableCols when the loops of computeSeatCounts end
availableCols(seatMap) ==
    LET seats == SeatsOf(seatMap.Lines)
        rows == {seats[i].Line : i \in {j \in DOMAIN seats :
                    /\ ToLower(seats[j].Status) = "available"
                    /\ seats[j].Column > 0}}
    IN  [r \in rows |-> columnsOfLine(seats, r)]

\* how many seats have one of the statuses, lower-cased
CountStatus(seats, statuses) ==
    Cardinality({i \in DOMAIN seats : ToLower(seats[i].Status) \in statuses})

NoSeatCount ==
    [total |-> 0, available |-> 0, occupied |-> 0, blocked |-> 0,
     nonIdealAvailable |-> 0, idealAvailable |-> 0, pairAvailable |-> 0]

computeSeatCounts(seatMap) ==
    LET seats == SeatsOf(seatMap.Lines)
        front == frontLineSet(seatMap, 3)
        available == CountStatus(seats, {"available"})
        nonIdeal == Cardinality({i \in DOMAIN seats :
                        /\ ToLower(seats[i].Status) = "available"
                        /\ seats[i].Line \in front})
    IN  [total |-> Len(seats),
         available |-> available,
         occupied |-> CountStatus(seats, {"occupied"}),
         blocked |-> CountStatus(seats, {"blocked", "unavailable"}),
         nonIdealAvailable |-> nonIdeal,
         idealAvailable |-> IF available - nonIdeal > 0 THEN available - nonIdeal ELSE 0,
         pairAvailable |-> countAdjacentPairsFromCols(availableCols(seatMap))]

\* largest number of seats in the row of a one-row seat map, and the largest
\* column of a seat
MaxRowSeats == 5
MaxColumn == 6

\* largest number of seats of a seat map with several rows
MaxMapSeats == 4

\* seat maps of one row of available seats, in any order of the columns, a
\* column possibly missing (0) or listed twice
RowSeatMaps ==
    {[Lines |-> <<[Seats |-> [i \in 1..Len(cols) |-> Seat(1, cols[i], "available")]]>>] :
        cols \in UNION {[1..k -> 0..MaxColumn] : k \in 0..MaxRowSeats}}

\* the seats a seat map with several rows is made of: an available seat in each
\* of the rows 1 to 4 and one without a row, and seats of the other statuses
MapSeats ==
    {Seat(l, 1, "available") : l \in 0..4}
    \cup {Seat(1, 2, "Available"), Seat(1, 3, "occupied"), Seat(4, 3, "occupied"),
          Seat(4, 2, "UNAVAILABLE"), Seat(2, 0, "blocked"), Seat(3, 2, "reserved")}

\* seat maps of up to MaxMapSeats seats, one seat to a line
StatusSeatMaps ==
    {[Lines |-> [i \in 1..Len(seats) |-> [Seats |-> <<seats[i]>>]]] :
        seats \in UNION {[1..k -> MapSeats] : k \in 0..MaxMapSeats}}

\* no call of computeSeatCounts
IdleScore ==
    /\ scPc = "done"
    /\ scIn = [Lines |-> << >>]
    /\ sc = NoSeatCount

\* computeSeatCounts is called with a seat map of one row
InitRow ==
    /\ scPc = "call"
    /\ scIn \in RowSeatMaps
    /\ sc = NoSeatCount

\* computeSeatCounts is called with a seat map of several rows
InitScore ==
    /\ scPc = "call"
    /\ scIn \in StatusSeatMaps
    /\ sc = NoSeatCount

\* the call returns
ComputeSeatCounts ==
    /\ scPc = "call"
    /\ sc' = computeSeatCounts(scIn)
    /\ scPc' = "done"
    /\ UNCHANGED scIn
    /\ UNCHANGED <<gjVars, stVars, agVars, navVars, fxVars, cfVars, locVars, rdVars>>

NextScore == ComputeSeatCounts

----------------------------------------------------------------------------
(***************************************************************************)
(* The specifications.                                                     *)
(***************************************************************************)

InitSpecGetJSON == InitGetJSON /\ IdleStore /\ IdleAgg /\ IdleNav /\ IdleFetch /\ IdleConfig /\ IdleLocation /\ IdleDelay /\ IdleScore

SpecGetJSON == InitSpecGetJSON /\ [][NextGetJSON]_vars

InitSpecStore == IdleStore /\ IdleGetJSON /\ IdleAgg /\ IdleNav /\ IdleFetch /\ IdleConfig /\ IdleLocation /\ IdleDelay /\ IdleScore

SpecStore == InitSpecStore /\ [][NextStore]_vars

InitSpecAgg == InitAgg /\ IdleGetJSON /\ IdleNav /\ IdleFetch /\ IdleConfig /\ IdleLocation /\ IdleDelay /\ IdleScore

SpecAgg == InitSpecAgg /\ [][NextAgg]_vars

\* the cases of a theater that the merge tells apart, the first four: not found,
\* a failure, no movie on the day, and a movie
MergeCases == 1..4

\* fetchMovieCatalogCmd is called with a list of up to MaxAggTheaters theaters in
\* any of these cases, or with the shortest list that fills the semaphore
InitAggFair ==
    \/ \E n \in 0..MaxAggTheaters :
         \E cases \in [1..n -> MergeCases] :
            AggStart([t \in 1..n |-> t], cases)
    \/ AggStart([t \in 1..(SemCap + 1) |-> t], [t \in 1..(SemCap + 1) |-> FanCase])

InitSpecAggFair == InitAggFair /\ IdleGetJSON /\ IdleNav /\ IdleFetch /\ IdleConfig /\ IdleLocation /\ IdleDelay /\ IdleScore

\* the goroutines are scheduled and every fetch returns: a step that stays
\* possible is taken
SpecAggFair == InitSpecAggFair /\ [][NextAgg]_vars /\ WF_vars(NextAgg)

InitSpecNav == InitNav(NavSurroundings) /\ IdleGetJSON /\ IdleStore /\ IdleAgg /\ IdleFetch /\ IdleConfig /\ IdleLocation /\ IdleDelay /\ IdleScore

SpecNav == InitSpecNav /\ [][NextNav]_vars

InitSpecRecover == InitNav(RecoverSurroundings) /\ IdleGetJSON /\ IdleStore /\ IdleAgg /\ IdleFetch /\ IdleConfig /\ IdleLocation /\ IdleDelay /\ IdleScore

SpecRecover == InitSpecRecover /\ [][NextRecover]_vars

InitSpecRetry == InitNav(RetrySurroundings) /\ IdleGetJSON /\ IdleStore /\ IdleAgg /\ IdleFetch /\ IdleConfig /\ IdleLocation /\ IdleDelay /\ IdleScore

SpecRetry == InitSpecRetry /\ [][NextRecover]_vars

InitSpecSeats == InitNav(SeatSurroundings) /\ IdleGetJSON /\ IdleStore /\ IdleAgg /\ IdleFetch /\ IdleConfig /\ IdleLocation /\ IdleDelay /\ IdleScore

SpecSeats == InitSpecSeats /\ [][NextRecover]_vars

InitSpecFilter == InitNav(FilterSurroundings) /\ IdleGetJSON /\ IdleStore /\ IdleAgg /\ IdleFetch /\ IdleConfig /\ IdleLocation /\ IdleDelay /\ IdleScore

SpecFilter == InitSpecFilter /\ [][NextNav]_vars

InitSpecSection == InitNav(SectionSurroundings) /\ IdleGetJSON /\ IdleStore /\ IdleAgg /\ IdleFetch /\ IdleConfig /\ IdleLocation /\ IdleDelay /\ IdleScore

SpecSection == InitSpecSection /\ [][NextNav]_vars

InitSpecManage == InitNav(ManageSurroundings) /\ IdleGetJSON /\ IdleStore /\ IdleAgg /\ IdleFetch /\ IdleConfig /\ IdleLocation /\ IdleDelay /\ IdleScore

SpecManage == InitSpecManage /\ [][NextRecover]_vars

InitSpecCity == InitNav(CitySurroundings) /\ IdleGetJSON /\ IdleStore /\ IdleAgg /\ IdleFetch /\ IdleConfig /\ IdleLocation /\ IdleDelay /\ IdleScore

SpecCity == InitSpecCity /\ [][NextRecover]_vars

InitSpecDate == InitNav(DateSurroundings) /\ IdleGetJSON /\ IdleStore /\ IdleAgg /\ IdleFetch /\ IdleConfig /\ IdleLocation /\ IdleDelay /\ IdleScore

SpecDate == InitSpecDate /\ [][NextNav]_vars

InitSpecLive == InitNav(LiveSurroundings) /\ IdleGetJSON /\ IdleStore /\ IdleAgg /\ IdleFetch /\ IdleConfig /\ IdleLocation /\ IdleDelay /\ IdleScore

\* every command returns and the runtime hands every message to Update: a
\* delivery that stays possible happens
SpecLive == InitSpecLive /\ [][NextNav]_vars /\ WF_vars(NavDeliver)

InitSpecFetch == InitFetch /\ IdleGetJSON /\ IdleAgg /\ IdleNav /\ IdleConfig /\ IdleLocation /\ IdleDelay /\ IdleScore

SpecFetch == InitSpecFetch /\ [][NextFetch]_vars

InitSpecVisibility == IdleConfig /\ IdleGetJSON /\ IdleStore /\ IdleAgg /\ IdleNav /\ IdleFetch /\ IdleLocation /\ IdleDelay /\ IdleScore

SpecVisibility == InitSpecVisibility /\ [][NextVisibility]_vars

InitSpecHistory == IdleConfig /\ IdleGetJSON /\ IdleStore /\ IdleAgg /\ IdleNav /\ IdleFetch /\ IdleLocation /\ IdleDelay /\ IdleScore

SpecHistory == InitSpecHistory /\ [][NextHistory]_vars

InitSpecLocation == InitLocation /\ IdleGetJSON /\ IdleStore /\ IdleAgg /\ IdleNav /\ IdleFetch /\ IdleConfig /\ IdleDelay /\ IdleScore

SpecLocation == InitSpecLocation /\ [][NextLocation]_vars

InitSpecDelay == InitDelay /\ IdleGetJSON /\ IdleStore /\ IdleAgg /\ IdleNav /\ IdleFetch /\ IdleConfig /\ IdleLocation /\ IdleScore

SpecDelay == InitSpecDelay /\ [][NextDelay]_vars

InitSpecRow == InitRow /\ IdleGetJSON /\ IdleStore /\ IdleAgg /\ IdleNav /\ IdleFetch /\ IdleConfig /\ IdleLocation /\ IdleDelay

SpecRow == InitSpecRow /\ [][NextScore]_vars

InitSpecScore == InitScore /\ IdleGetJSON /\ IdleStore /\ IdleAgg /\ IdleNav /\ IdleFetch /\ IdleConfig /\ IdleLocation /\ IdleDelay

SpecScore == InitSpecScore /\ [][NextScore]_vars

----------------------------------------------------------------------------
(***************************************************************************)
(* Properties of the retry loop.                                           *)
(***************************************************************************)

Last(s) == s[Len(s)]

\* a failure the policy calls transient: a transport error that is neither a
\* cancellation nor a deadline error, HTTP 429, or any 5xx
TransientOutcome(o) ==
    \/ o.kind = "netErr" /\ o.cause \notin {"canceled", "deadline"}
    \/ o.kind = "status" /\ (o.code = 429 \/ (o.code >= 500 /\ o.code <= 599))

Outcome503 == [kind |-> "status", code |-> 503, cause |-> "none"]
Outcome400 == [kind |-> "status", code |-> 400, cause |-> "none"]
Outcome200 == [kind |-> "status", code |-> 200, cause |-> "json"]

\* the part of C1 that holds as stated: a further attempt follows only a transient
\* failure of an attempt below the cap, the attempts never exceed the cap (values
\* below 1 count as 1), 503/503/200 yields the payload, a 400 ends the call at once
C1_AttemptsPolicy ==
    /\ gjAttempt = (IF gjPc = "request" THEN Len(gjOutcomes) + 1 ELSE Len(gjOutcomes))
    /\ Len(gjOutcomes) <= (IF gjMax < 1 THEN 1 ELSE gjMax)
    /\ \A k \in 1 .. Len(gjOutcomes) :
         (k < Len(gjOutcomes) \/ gjPc # "done") =>
             /\ TransientOutcome(gjOutcomes[k])
             /\ k < gjMax
    /\ (gjPc = "done" /\ Len(gjOutcomes) >= 1 /\ gjOutcomes[1] = Outcome400) =>
           (Len(gjOutcomes) = 1 /\ gjResult.tag = "apiErr" /\ gjResult.code = 400)
    /\ (gjPc = "done" /\ gjOutcomes = <<Outcome503, Outcome503, Outcome200>>) =>
           gjResult.tag = "payload"

\* C1 as stated: the retry policy above, and the call always returns the outcome of
\* its last attempt
C1_Original ==
    /\ C1_AttemptsPolicy
    /\ gjPc = "done" => gjResult = OutcomeResult(Last(gjOutcomes))

\* C1 (amended): getJSON makes attempt k+1 only after a transient failure of attempt
\* k < maxAttempts; it returns the outcome of its last attempt, except that a
\* context cancelled during a retry backoff ends the call with the context's error
C1_RetryPolicy ==
    /\ C1_AttemptsPolicy
    /\ gjPc = "done" =>
         \/ gjResult = OutcomeResult(Last(gjOutcomes))
         \/ /\ gjResult = [tag |-> "ctxErr", code |-> 0, cause |-> gjCtx]
            /\ gjCtx # "live"
            /\ TransientOutcome(Last(gjOutcomes))
            /\ Len(gjOutcomes) < gjMax

\* C1 witness: 503, 503, 200 with the default cap returned the payload after
\* exactly three attempts
C1_Witness ==
    /\ gjPc = "done"
    /\ gjMax = defaultMaxAttempts
    /\ gjOutcomes = <<Outcome503, Outcome503, Outcome200>>
    /\ gjAttempt = 3
    /\ gjResult.tag = "payload"

----------------------------------------------------------------------------
(***************************************************************************)
(* Properties of the cache.                                                *)
(***************************************************************************)

\* the TTL of each cache kind, in minutes: 7 days, 72 hours, 10 minutes
StatedTTL(path) ==
    CASE path.name = "cities" -> 7 * 24 * 60
      [] path.name = "theaters" -> 72 * 60
      [] OTHER -> 10

\* C10: for each cache kind, a Load of a key after a Save of that key, with no other
\* save in between and before the kind's TTL has elapsed, returns the saved data
\* unchanged, isFresh = true and no error
C10_RoundTrip ==
    (stLast.loaded /\ stSaved[stLast.path].saved
        /\ now - stSaved[stLast.path].at < StatedTTL(stLast.path)) =>
            /\ stLast.data = stSaved[stLast.path].data
            /\ stLast.fresh
            /\ stLast.err = "none"

\* C10 witness: a non-empty list saved, time passed (less than the TTL), and the
\* Load returned it fresh
C10_Witness ==
    /\ stLast.loaded
    /\ stLast.path.name = "theaters"
    /\ stSaved[stLast.path].saved
    /\ now - stSaved[stLast.path].at > 0
    /\ now - stSaved[stLast.path].at < StatedTTL(stLast.path)
    /\ stLast.data = Slice(<<2, 1>>)
    /\ stLast.fresh

\* C11: a Load of a key whose last Save is older than the kind's TTL returns
\* isFresh = false; an age exactly equal to the TTL is still fresh; a key never
\* saved loads as empty data, isFresh = false and no error
C11_StaleAndMissing ==
    stLast.loaded =>
        LET s == stSaved[stLast.path]
            age == now - s.at
        IN  /\ (s.saved /\ age > StatedTTL(stLast.path)) => ~stLast.fresh
            /\ (s.saved /\ age = StatedTTL(stLast.path)) => stLast.fresh
            /\ ~s.saved =>
                   /\ stLast.data = NilSlice
                   /\ ~stLast.fresh
                   /\ stLast.err = "none"

\* C11 witness: a session list loaded a minute after its TTL ran out, after the
\* clock had stood exactly at the TTL
C11_Witness ==
    /\ stLast.loaded
    /\ stLast.path.name = "sessions"
    /\ stSaved[stLast.path].saved
    /\ now - stSaved[stLast.path].at = StatedTTL(stLast.path) + 1
    /\ stLast.data = Slice(<<2, 1>>)
    /\ ~stLast.fresh

\* the cache entry a command found was written more than the kind's TTL ago, or
\* never
FoundStale ==
    \/ ~fetched.entry.saved
    \/ fetched.at - fetched.entry.at > StatedTTL(fetched.path)

\* C12: a cached value older than its TTL is always treated as a miss: no command
\* (city list, theater list, sessions of a theater, resolution of the remembered
\* city) uses cached data whose age exceeds the TTL of its kind, and a stale or
\* empty entry makes the command call the gateway instead
C12_StaleIsMiss ==
    fetched.cmd # "none" =>
        /\ fetched.source = "cache" => ~FoundStale
        /\ (FoundStale \/ len(fetched.entry.data) = 0) => fetched.source = "gateway"

----------------------------------------------------------------------------
(***************************************************************************)
(* Claims about the aggregation.                                           *)
(***************************************************************************)

\* the aggregation has returned a message for a non-empty theater list
AggReturned == agMain = "returned" /\ Len(agTheaters) > 0

\* the fetches in flight: goroutines inside loadSessionsByTheater
InFlight == {t \in DOMAIN agPc : agPc[t].at = "load"}

\* C2: during an aggregation over any number of theaters at most 6 per-theater
\* session fetches are in flight at any moment.
C2_AtMostSixInFlight == Cardinality(InFlight) <= 6

\* six fetches are in flight while a seventh theater waits for the semaphore
C2_Witness ==
    /\ Cardinality(InFlight) = 6
    /\ \E t \in DOMAIN agPc : agPc[t].at = "sem"

\* the sessions the theaters' results hold on the day selected for the date:
\* theater, movie, session id
AggInputs ==
    UNION { UNION { UNION {
        { [theater |-> r.theater, movie |-> m, id |-> room.Sessions[x].Id] :
            x \in 1..Len(room.Sessions) } :
        room \in Range(m.Rooms) } :
        m \in Range(selectDay(r.days, AggDate).Movies) } :
        r \in Range(agOut) }

\* the catalog holds exactly one aggregate per key of the input movies, and the
\* aggregate of a key holds each session of the key's movies once, with its theater
OneAggregatePerKey(keyOf(_)) ==
    LET keys == {keyOf(x.movie) : x \in AggInputs} IN
    /\ Len(agMsg.movies) = Cardinality(keys)
    /\ \A k \in keys :
         \E i \in 1..Len(agMsg.movies) :
            LET es == agMsg.movies[i].sessions
                want == {<<x.theater, x.id>> : x \in {y \in AggInputs : keyOf(y.movie) = k}}
            IN
            /\ keyOf(agMsg.movies[i].movie) = k
            /\ \A j \in 1..Len(agMsg.movies) :
                 keyOf(agMsg.movies[j].movie) = k => j = i
            /\ Len(es) = Cardinality(want)
            /\ {<<es[n].theater, es[n].session.Id>> : n \in 1..Len(es)} = want

\* every theater's fetch succeeded
AllSucceeded == \A r \in Range(agOut) : r.err = NoErr

\* every theater's result holds a movie on the day selected for the date
AllHaveMovies ==
    \A r \in Range(agOut) : Len(selectDay(r.days, AggDate).Movies) > 0

\* the key as stated: the id when present, else lower-cased title and original title
StatedKey(movie) ==
    IF movie.Id # "" THEN "id:" \o movie.Id
    ELSE ToLower(movie.Title) \o "|" \o ToLower(movie.OriginalTitle)

\* the key with blank ids taken as absent and the titles trimmed of white space
TrimmedKey(movie) ==
    IF TrimSpace(movie.Id) # "" THEN "id:" \o movie.Id
    ELSE ToLower(TrimSpace(movie.Title)) \o "|" \o ToLower(TrimSpace(movie.OriginalTitle))

\* C3 as stated: for successful results the catalog has exactly one aggregate per
\* distinct key (the id when present, otherwise lower-cased title plus lower-cased
\* original title) holding every session of that movie once with its theater, and
\* failed = ignored = 0 when every theater has a movie.
C3_Original ==
    (AggReturned /\ AllSucceeded) =>
        /\ OneAggregatePerKey(StatedKey)
        /\ AllHaveMovies => (agMsg.failed = 0 /\ agMsg.ignored = 0)

\* C3: for successful results the catalog has exactly one aggregate per distinct
\* key, the key being the id when it is not blank and otherwise the trimmed
\* lower-cased title plus the trimmed lower-cased original title; the aggregate
\* holds every session of the key's movies from every theater exactly once, each
\* tagged with its theater; failed = ignored = 0 when every theater has a movie.
C3_OneAggregatePerKey ==
    (AggReturned /\ AllSucceeded) =>
        /\ OneAggregatePerKey(TrimmedKey)
        /\ AllHaveMovies => (agMsg.failed = 0 /\ agMsg.ignored = 0)

\* two theaters show movie m1: one aggregate with the three sessions of both
C3_Witness ==
    /\ AggReturned
    /\ AllSucceeded
    /\ Len(agTheaters) = 2
    /\ Len(agMsg.movies) = 1
    /\ agMsg.movies[1].movie.Id = "m1"
    /\ {<<e.theater, e.session.Id>> : e \in Range(agMsg.movies[1].sessions)}
         = {<<1, SessionId(1, 1)>>, <<1, SessionId(1, 2)>>, <<2, SessionId(2, 1)>>}
    /\ agMsg.failed = 0
    /\ agMsg.ignored = 0

\* the results that are a 404 of the API, and the other failures
NotFoundResults == {r \in Range(agOut) : r.err # NoErr /\ r.err.code = 404}
OtherFailures == {r \in Range(agOut) : r.err # NoErr /\ r.err.code # 404}
EmptyResults ==
    {r \in Range(agOut) :
        r.err = NoErr /\ Len(selectDay(r.days, AggDate).Movies) = 0}

\* C4: a theater whose fetch returns NotFound counts in ignored and not in failed,
\* a theater with any other failure counts in failed and not in ignored, and the
\* sessions of every other theater are in the merged catalog.
C4_FailuresCounted ==
    AggReturned =>
        /\ agMsg.failed = Cardinality(OtherFailures)
        /\ agMsg.ignored = Cardinality(NotFoundResults) + Cardinality(EmptyResults)
        /\ \A x \in AggInputs :
             \E a \in Range(agMsg.movies) :
                \E e \in Range(a.sessions) :
                    e.theater = x.theater /\ e.session.Id = x.id

\* one theater is unknown to the API, the other shows a movie
C4_Witness ==
    /\ AggReturned
    /\ Cardinality(NotFoundResults) = 1
    /\ agMsg.ignored = 1
    /\ agMsg.failed = 0
    /\ Len(agMsg.movies) > 0

\* the results in the order of the theater list
ResultsInListOrder ==
    [i \in 1..Len(agTheaters) |->
        CHOOSE r \in Range(agOut) : r.theater = agTheaters[i]]

\* C5: for a fixed set of per-theater results the merged catalog (the aggregates,
\* each aggregate's movie record and the order of its session entries, and the
\* failed and ignored counts) is the same for every order in which the fetches
\* complete: it is the catalog merged in the order of the theater list.
C5_Deterministic ==
    AggReturned =>
        LET ref == MergeResults(EmptyMerge, ResultsInListOrder) IN
        /\ Range(agMsg.movies) = {ref.byMovie[k] : k \in DOMAIN ref.byMovie}
        /\ agMsg.failed = ref.failed
        /\ agMsg.ignored = ref.ignored

----------------------------------------------------------------------------
(***************************************************************************)
(* The navigation: seat counts, the retry on the next day, errors.         *)
(***************************************************************************)

\* the seat-count fetches for a session id that have not delivered yet
Outstanding(inFlight, id) ==
    IF fetchSeatCountCmd(id) \in BagToSet(inFlight)
    THEN CopiesIn(fetchSeatCountCmd(id), inFlight) ELSE 0

\* the session ids of the surroundings
SessionIds ==
    UNION { UNION { {session.Id : session \in Range(movie.sessions)} :
                        movie \in Range(movies) } : movies \in env.movies }

\* C6: at any moment at most one seat-count fetch is outstanding for a session
\* id; an id with a fetch outstanding is marked in seatCounts; and once an id is
\* marked no step (a fetch pass after a resize, a filter change, paging or
\* entering ShowSessions again) issues a fetch for it again.
C6_AtMostOneSeatFetch ==
    [][\A id \in SessionIds :
          /\ Outstanding(pending', id) <= 1
          /\ Outstanding(pending', id) > 0 => id \in DOMAIN app'.seatCounts
          /\ id \in DOMAIN app.seatCounts =>
                Outstanding(pending', id) <= Outstanding(pending, id)]_vars

\* the page was turned to the second session, whose fetch is outstanding and
\* marked, after the count of the first session arrived: fetch passes ran with
\* the first session marked
C6_Witness ==
    /\ app.state = "ShowSessions"
    /\ app.sessionList.perPage = 1
    /\ app.sessionList.page = 1
    /\ 1 \in DOMAIN app.seatCounts /\ app.seatCounts[1].loaded
    /\ Outstanding(pending, 2) = 1
    /\ 2 \in DOMAIN app.seatCounts /\ ~app.seatCounts[2].loaded

\* the error texts that say that no sessions were found (the date that ends
\* them is left out), and the kind of fetch that produces each
NoSessionsForTheater == "no sessions found for this theater"
NoSessionsInVisible == "no sessions found in visible theaters"

FetchKindOf(e) ==
    IF e = NoSessionsForTheater THEN "fetchSessions" ELSE "fetchMovieCatalog"

\* C7: from Error with a "no sessions found" failure and suggestNextDay, enter
\* advances the date by exactly one day, moves to LoadingSessions and issues one
\* fetch, for the new date, of the kind (single theater or all theaters) of the
\* fetch whose failure produced the error.
C7_NextDaySameKind ==
    (/\ app.state = "Error"
     /\ app.errorSuggestNextDay
     /\ app.err \in {NoSessionsForTheater, NoSessionsInVisible})
    => LET r == Update(app, files, KeyMsg("enter", 1), "ok") IN
       /\ r.m.date = app.date + 1
       /\ r.m.state = "LoadingSessions"
       /\ Len(r.cmds) = 1
       /\ r.cmds[1].cmd = FetchKindOf(app.err)
       /\ r.cmds[1].date = app.date + 1

\* the failed results that a command in flight can deliver now
FailedResults ==
    UNION { {msg \in Results(task) :
                IF msg.type = "seatCountMsg" THEN msg.count.err # "none"
                ELSE msg.type # "errMsg" /\ msg.err # "none"} :
            task \in BagToSet(pending) }

\* the error of a failed result
FailureOf(msg) == IF msg.type = "seatCountMsg" THEN msg.count.err ELSE msg.err

\* the error messages that commands in flight will deliver
ErrorsInFlight ==
    UNION { Results(task) : task \in {t \in BagToSet(pending) : t.cmd = "err"} }

\* the machine, having handled msg, is in Error and records the error e and a
\* recovery state that is a screen
InErrorWith(m, e) ==
    /\ m.state = "Error"
    /\ m.err = e
    /\ m.lastState \notin LoadingStates \cup {"Error"}

\* original statement of C8: every failed asynchronous result moves the machine
\* to Error, recording the failure message and a recovery state - at once, or
\* when the error message that its handler sends is handled next.
C8_Original ==
    \A msg \in FailedResults :
        LET r == Update(app, files, msg, "ok") IN
        \/ InErrorWith(r.m, FailureOf(msg))
        \/ /\ Len(r.cmds) = 1
           /\ r.cmds[1].cmd = "err"
           /\ \A e \in Results(r.cmds[1]) :
                 InErrorWith(Update(r.m, r.fs, e, "ok").m, FailureOf(msg))

\* C8 (amended): a failed city list, theater list, session fetch, cross-theater
\* catalog, location detection, session details or seat map leaves the machine
\* as it is and sends one error message with the failure message; an error
\* message, whenever it is handled, moves the machine to Error and records its
\* message and a recovery state that is a screen. A failed city lookup moves to
\* LoadingCities and fetches the city list; a failed seat count is recorded in
\* seatCounts and changes nothing else.
C8_FailuresToError ==
    /\ \A msg \in FailedResults :
          LET r == Update(app, files, msg, "ok") IN
          CASE msg.type = "cityMsg" ->
                  /\ r.m = [app EXCEPT !.state = "LoadingCities"]
                  /\ r.cmds = <<fetchCitiesCmd>>
            [] msg.type = "seatCountMsg" ->
                  /\ r.m = [app EXCEPT !.seatCounts =
                                (msg.sessionID :> msg.count) @@ @]
                  /\ r.m.seatCounts[msg.sessionID].err = msg.count.err
                  /\ r.cmds = << >>
            [] OTHER ->
                  /\ r.m = app
                  /\ Len(r.cmds) = 1
                  /\ r.cmds[1].cmd = "err"
                  /\ r.cmds[1].err = msg.err
    /\ \A e \in ErrorsInFlight :
          InErrorWith(Update(app, files, e, "ok").m, e.err)

\* a failure on the way to the seat map has been handled: the machine is in
\* Error with the failure message and ShowSessions to recover to
C8_Witness ==
    /\ app.state = "Error"
    /\ app.err = Failed
    /\ app.lastState = "ShowSessions"
    /\ app.selectedSession.Id = 1

\* the recovery state that C9 states for a state, and the one of its original
\* statement
StatedRecovery(s) ==
    CASE s \in {"LoadingCities", "LoadingTheaters"} -> "SelectCity"
      [] s = "LoadingSessions" -> "SelectTheater"
      [] s = "LoadingSeatMap" -> "ShowSessions"
      [] s = "Error" -> "SelectTheater"
      [] OTHER -> s

OriginalRecovery(s) == IF s = "Error" THEN "Error" ELSE StatedRecovery(s)

\* the recovery state recorded for every error message in flight that carries
\* no recovery target is the one that recovery(_) gives for the current state;
\* esc in Error moves to the recorded state and clears suggestNextDay
RecoveryIs(recovery(_)) ==
    /\ \A e \in ErrorsInFlight :
          ~e.returnStateSet =>
              Update(app, files, e, "ok").m.lastState = recovery(app.state)
    /\ app.state = "Error" =>
          LET r == Update(app, files, KeyMsg("esc", 1), "ok") IN
          /\ r.m.state = app.lastState
          /\ ~r.m.errorSuggestNextDay

\* original statement of C9: ... otherwise that state itself.
C9_Original == RecoveryIs(OriginalRecovery)

\* C9 (amended): an error message without a recovery target records SelectCity
\* when it arrives in LoadingCities or LoadingTheaters, SelectTheater in
\* LoadingSessions, ShowSessions in LoadingSeatMap, SelectTheater in Error, and
\* otherwise the state it arrives in; esc in Error moves the machine to exactly
\* the recorded state and clears suggestNextDay.
C9_RecoveryState == RecoveryIs(StatedRecovery)

\* an error message without a recovery target is about to arrive in Error
C9_ErrorInError ==
    /\ app.state = "Error"
    /\ \E e \in ErrorsInFlight : ~e.returnStateSet

\* an error arrived in LoadingSeatMap and esc brought the machine to the
\* recorded ShowSessions; a next error is about to arrive there
C9_Witness ==
    /\ app.state = "ShowSessions"
    /\ app.lastState = "ShowSessions"
    /\ app.err = Failed
    /\ ~app.errorSuggestNextDay
    /\ \E e \in ErrorsInFlight : ~e.returnStateSet


----------------------------------------------------------------------------
(***************************************************************************)
(* Properties of the visibility file and the history files.                *)
(***************************************************************************)

\* the map hidden_by_city that is persisted once a call has returned
Persisted(r) == loadTheaterVisibility(r.file)

\* the theater is in the persisted list of the city
IsHidden(file, city, theater) ==
    TrimSpace(theater) \in Range(HiddenOf(loadTheaterVisibility(file), TrimSpace(city)))

\* C13: toggling visibility is idempotent: hiding a theater that is already hidden,
\* and unhiding one that is already visible, leave the persisted hidden set of every
\* city unchanged; hiding then unhiding a visible theater, and unhiding then hiding a
\* hidden one, bring back the original persisted state
C13_ToggleIdempotent ==
    \A city \in CityArgs, theater \in TheaterArgs :
        LET original == loadTheaterVisibility(visibility)
            hid == setTheaterHidden(visibility, city, theater, TRUE)
            shown == setTheaterHidden(visibility, city, theater, FALSE)
        IN  IF IsHidden(visibility, city, theater)
            THEN /\ Persisted(hid) = original
                 /\ Persisted(setTheaterHidden(shown.file, city, theater, TRUE)) = original
            ELSE /\ Persisted(shown) = original
                 /\ Persisted(setTheaterHidden(hid.file, city, theater, FALSE)) = original

\* C13 witness: both theaters of city 1 are hidden; a theater of city 2 was toggled
\* and is visible
C13_Witness ==
    /\ visibility.exists
    /\ DOMAIN visibility.HiddenByCity = {"1"}
    /\ visibility.HiddenByCity["1"] = <<"11", "12">>
    /\ visCalls["2"]["11"] = "show"

\* the theaters whose most recent call for the city hid them
StatedHidden(city) ==
    IF TrimSpace(city) \in DOMAIN visCalls
    THEN {t \in DOMAIN visCalls[TrimSpace(city)] : visCalls[TrimSpace(city)][t] = "hide"}
    ELSE {}

\* C14: after any sequence of SetTheaterHidden calls from an empty store,
\* LoadHiddenTheaters(city) returns exactly the ids whose most recent call for that
\* city had hidden = true (so calls for one city never change the set of another)
C14_HiddenIsLastCall ==
    visLoaded.called => visLoaded.hidden = StatedHidden(visLoaded.city)

\* C15: after any sequence of RememberCity and RememberTheater calls, each persisted
\* recency list holds at most 8 entries
C15_AtMostEight ==
    /\ Len(cityHist) <= 8
    /\ Len(theaterHist) <= 8

\* C15 witness: the ninth city was remembered after eight others, and the list
\* holds eight
C15_Witness ==
    /\ Len(cityHist) = 8
    /\ cityHist[1].ID = "9"
    /\ \A i \in 1..8 : cityHist[i].ID # "1"

\* two entries are the same by id, or by name in any case where an id is missing
SameIdentity(idA, nameA, idB, nameB) ==
    IF idA # "" /\ idB # "" THEN idA = idB
    ELSE nameA # "" /\ nameB # "" /\ EqualFold(nameA, nameB)

\* C16: after any sequence of RememberCity and RememberTheater calls from an empty
\* history, with any arguments, no recency list holds two entries with the same
\* identity (id first, case-insensitive name as fallback)
C16_NoTwoAlike ==
    /\ \A i, j \in 1..Len(cityHist) :
          i # j => ~SameIdentity(cityHist[i].ID, cityHist[i].Name,
                                 cityHist[j].ID, cityHist[j].Name)
    /\ \A i, j \in 1..Len(theaterHist) :
          (i # j /\ theaterHist[i].CityID = theaterHist[j].CityID) =>
              ~SameIdentity(theaterHist[i].TheaterID, theaterHist[i].Name,
                            theaterHist[j].TheaterID, theaterHist[j].Name)

----------------------------------------------------------------------------
(***************************************************************************)
(* Properties of the location resolver.                                    *)
(***************************************************************************)

\* the error a contacted service returned to the resolver (none on success)
ReturnedBy(service) ==
    IF service = "system" THEN locAnswers["system"].err
    ELSE detectCurrentLocationFromProvider(service, locAnswers[service]).err

Cancellation(err) == err.is = "canceled" \/ err.is = "deadline"

\* C17: if the system lookup or any provider fails with a cancellation or deadline
\* error, DetectCurrentLocation returns that error and contacts no further provider
C17_CancellationAborts ==
    \A i \in 1..Len(locContacted) :
        Cancellation(ReturnedBy(locContacted[i])) =>
            /\ i = Len(locContacted)
            /\ locPc = "done"
            /\ locResult.err = ReturnedBy(locContacted[i])
            /\ locResult.location = ZeroLocation

\* C17 witness: the system lookup and the first provider failed otherwise, the
\* second provider's request ended with the deadline's error, and the call is over
C17_Witness ==
    /\ locPc = "done"
    /\ locContacted = <<"system", "ipapi", "ipwhois">>
    /\ locResult.err.is = "deadline"
    /\ ~Cancellation(locAnswers["ipinfo"].err)

\* the order in which the services are consulted
StatedOrder == <<"system", "ipapi", "ipwhois", "ipinfo">>

\* C18: the system service is consulted first; on its success the call returns its
\* location tagged "system" and contacts no provider; on a failure that is no
\* cancellation the providers are tried in their fixed order, the first success
\* determines the result (tagged with the provider's name unless the payload
\* supplied a source), and no provider after it is contacted
C18_SystemThenProviders ==
    /\ locContacted = SubSeq(StatedOrder, 1, Len(locContacted))
    /\ locPc # "system" => Len(locContacted) >= 1
    /\ \A i \in 1..Len(locContacted) :
          LET service == locContacted[i]
              a == locAnswers[service]
          IN  IF ReturnedBy(service) = NoLocErr
              THEN /\ i = Len(locContacted)
                   /\ locPc = "done"
                   /\ locResult.err = NoLocErr
                   /\ locResult.location.Latitude = a.location.Latitude
                   /\ locResult.location.Longitude = a.location.Longitude
                   /\ locResult.location.Source =
                        IF service = "system" THEN "system"
                        ELSE IF TrimSpace(a.location.Source) # ""
                        THEN a.location.Source
                        ELSE service
              ELSE Cancellation(ReturnedBy(service))
                     \/ i < Len(locContacted)
                     \/ locPc = "providers"
                     \/ (i = Len(StatedOrder) /\ locResult.err # NoLocErr)
    /\ (locPc = "done" /\ locResult.err = NoLocErr) =>
          ReturnedBy(locContacted[Len(locContacted)]) = NoLocErr

\* C18 witness: the system lookup and the first provider failed, the second
\* provider answered with a source of its own, and the third was not contacted
C18_Witness ==
    /\ locPc = "done"
    /\ locContacted = <<"system", "ipapi", "ipwhois">>
    /\ locResult.err = NoLocErr
    /\ locResult.location.Source = "payload"
    /\ locAnswers["ipinfo"].err = NoLocErr

----------------------------------------------------------------------------
(***************************************************************************)
(* Properties of the backoff.                                              *)
(***************************************************************************)

\* min(cap, base * 2^(attempt - 1)) for positive base and cap, computed without
\* leaving the range of the integers: once twice the base exceeds the cap, so
\* does every further doubling
RECURSIVE StatedDelay(_, _, _)
StatedDelay(attempt, base, cap) ==
    IF base >= cap THEN cap
    ELSE IF attempt <= 1 THEN base
    ELSE IF base > cap - base THEN cap
    ELSE StatedDelay(attempt - 1, base + base, cap)

\* C19: for every attempt >= 1 and every positive base and cap, the delay after
\* that attempt is min(cap, base * 2^(attempt - 1)); a base or cap that is not
\* positive stands for the default, 200 ms and 1200 ms
C19_DelayIsCappedPower ==
    (rdPc = "returned" /\ rdIn.attempt >= 1) =>
        rd.ret = StatedDelay(rdIn.attempt,
                             IF rdIn.retryBase > 0 THEN rdIn.retryBase
                             ELSE 200 * 1000000,
                             IF rdIn.retryCap > 0 THEN rdIn.retryCap
                             ELSE 1200 * 1000000)

\* C20: if the context is cancelled while getJSON waits in a retry backoff, the wait
\* ends without the timer, no further attempt is made, and the call fails with the
\* context's error
C20_CancelEndsWait ==
    [][(gjPc = "wait" /\ gjCtx # "live") =>
          /\ gjPc' = "done"
          /\ gjResult' = [tag |-> "ctxErr", code |-> 0, cause |-> gjCtx]
          /\ gjOutcomes' = gjOutcomes
          /\ gjAttempt' = gjAttempt]_vars

\* C20 witness: the first of three attempts met a 503, the context was cancelled
\* during the backoff, and the call returned the context's error
C20_Witness ==
    /\ gjPc = "done"
    /\ gjMax = 3
    /\ gjOutcomes = <<[kind |-> "status", code |-> 503, cause |-> "none"]>>
    /\ gjCtx = "canceled"
    /\ gjResult = [tag |-> "ctxErr", code |-> 0, cause |-> "canceled"]

(***************************************************************************)
(* Properties of the seat counts.                                          *)
(***************************************************************************)

\* the columns of the available seats of the one row of a seat map of one row
RowColumns ==
    IF 1 \in DOMAIN availableCols(scIn) THEN availableCols(scIn)[1] ELSE << >>

\* the seat map has one row whose available seats are at the columns 1, 2, 4,
\* 5 and 6, in whatever order it lists them, and the call has returned
RowOfFive ==
    /\ scPc = "done"
    /\ Len(RowColumns) = 5
    /\ Range(RowColumns) = {1, 2, 4, 5, 6}

\* C21 as stated: for a row whose available seats are at the columns 1, 2, 4, 5
\* and 6 the count of adjacent pairs is 2, the pairs counted being (1,2) and
\* (5,6), with column 4 in no pair
C21_Original ==
    RowOfFive => /\ sc.pairAvailable = 2
                 /\ rowPairs(RowColumns) = << <<1, 2>>, <<5, 6>> >>

\* C21: for a row whose available seats are at the columns 1, 2, 4, 5 and 6 the
\* count of adjacent pairs is 2, the pairs counted being (1,2) and (4,5), with
\* column 6 in no pair
C21_TwoPairsOfFive ==
    RowOfFive => /\ sc.pairAvailable = 2
                 /\ rowPairs(RowColumns) = << <<1, 2>>, <<4, 5>> >>

\* the row is listed out of order and two pairs were counted
C21_Witness ==
    /\ scPc = "done"
    /\ RowColumns = <<5, 4, 6, 2, 1>>
    /\ sc.pairAvailable = 2

\* a list without its j-th element
RemoveAt(list, j) == [i \in 1..(Len(list) - 1) |-> IF i < j THEN list[i] ELSE list[i + 1]]

\* the largest number of disjoint pairs of seats whose columns differ by one,
\* every way of pairing the first seat considered
RECURSIVE MaxDisjointPairs(_)
MaxDisjointPairs(list) ==
    IF Len(list) < 2 THEN 0
    ELSE LET rest == Tail(list)
             partners == {j \in DOMAIN rest :
                             rest[j] = Head(list) + 1 \/ rest[j] + 1 = Head(list)}
             paired == {1 + MaxDisjointPairs(RemoveAt(rest, j)) : j \in partners}
             best == paired \cup {MaxDisjointPairs(rest)}
         IN  CHOOSE n \in best : \A k \in best : k <= n

GreedyExactOnDistinctColumns ==
    (scPc = "done" /\ Cardinality(Range(RowColumns)) = Len(RowColumns))
    => sc.pairAvailable = MaxDisjointPairs(RowColumns)

\* the seats of the argument, and the positive row indices among them
ScoredSeats == SeatsOf(scIn.Lines)
PositiveRows ==
    {ScoredSeats[i].Line : i \in {j \in DOMAIN ScoredSeats : ScoredSeats[j].Line > 0}}

\* the 3 highest distinct positive row indices, all of them when fewer than 3
StatedFrontRows ==
    {r \in PositiveRows : Cardinality({q \in PositiveRows : q > r}) < 3}

\* the counter a status counts toward besides total, compared without regard to
\* the case of its letters
StatedCounter(status) ==
    CASE status \in {"available", "Available"} -> "available"
      [] status = "occupied" -> "occupied"
      [] status \in {"blocked", "unavailable", "UNAVAILABLE"} -> "blocked"
      [] OTHER -> "none"

SeatsCounted(counter) ==
    Cardinality({i \in DOMAIN ScoredSeats : StatedCounter(ScoredSeats[i].Status) = counter})

\* C29: the 3 highest distinct positive row indices (all when fewer) are the front
\* rows; total counts every seat, and available, occupied and blocked the seats
\* of that status ("unavailable" as blocked, other statuses nowhere);
\* nonIdealAvailable counts the available seats of the front rows and
\* idealAvailable = max(0, available - nonIdealAvailable); so no counter is
\* negative, available + occupied + blocked <= total and idealAvailable +
\* nonIdealAvailable = available
C29_SeatCounts ==
    scPc = "done" =>
        /\ frontLineSet(scIn, 3) = StatedFrontRows
        /\ sc.total = Len(ScoredSeats)
        /\ sc.available = SeatsCounted("available")
        /\ sc.occupied = SeatsCounted("occupied")
        /\ sc.blocked = SeatsCounted("blocked")
        /\ sc.nonIdealAvailable =
              Cardinality({i \in DOMAIN ScoredSeats :
                              /\ StatedCounter(ScoredSeats[i].Status) = "available"
                              /\ ScoredSeats[i].Line \in StatedFrontRows})
        /\ sc.idealAvailable =
              (IF sc.available - sc.nonIdealAvailable > 0
               THEN sc.available - sc.nonIdealAvailable ELSE 0)
        /\ \A f \in DOMAIN sc : sc[f] >= 0
        /\ sc.available + sc.occupied + sc.blocked <= sc.total
        /\ sc.idealAvailable + sc.nonIdealAvailable = sc.available

\* four rows: the available seat of row 1 is behind the three front rows, a seat
\* of row 4 is unavailable, and a reserved seat counts toward total only
C29_Witness ==
    /\ scPc = "done"
    /\ PositiveRows = {1, 2, 3, 4}
    /\ sc.total = 4
    /\ sc.idealAvailable = 1
    /\ sc.nonIdealAvailable = 1
    /\ sc.blocked = 1
    /\ sc.available + sc.occupied + sc.blocked < sc.total

(***************************************************************************)
(* Properties of the keys.                                                 *)
(***************************************************************************)

\* the screens with an active list
ListScreens ==
    {"SelectCity", "SelectTheater", "ManageTheaters", "SelectMovie", "ShowSessions",
     "SelectSection"}

\* what Update returns for a key pressed now, the cursor on the c-th item
Pressed(key, c) == Update(app, files, KeyMsg(key, c), "ok")

\* the key went to the filter of the list and nowhere else: the screen, the files
\* and every field of the model but the list (and, on ShowSessions, the seat
\* counts that a fetch pass marks) are as before, the program goes on, and the
\* only commands are seat-count fetches
OnlyFiltered(r) ==
    /\ r.m.state = app.state
    /\ ~r.quit
    /\ r.fs = files
    /\ [r.m EXCEPT ![activeList(app)] = app[activeList(app)],
                   !.seatCounts = app.seatCounts] = app
    /\ \A i \in DOMAIN r.cmds : r.cmds[i].cmd = "fetchSeatCount"

C23_XTogglesLikeEnter ==
    (~quit /\ app.state = "ManageTheaters") =>
        \A c \in Cursors("x") :
            \A x \in {Pressed("x", c)}, e \in {Pressed("enter", c)} :
                /\ x.m = e.m
                /\ x.fs = e.fs
                /\ x.cmds = e.cmds

\* C24: q and ctrl+c quit the program from every screen
C24_QuitFromEveryScreen ==
    ~quit => \A key \in {"q", "ctrl+c"} : Pressed(key, 1).quit

\* ctrl+c quits from every screen, and q from every screen without a list
QuitWhereNoFilter ==
    ~quit => /\ Pressed("ctrl+c", 1).quit
             /\ app.state \notin ListScreens => Pressed("q", 1).quit

(***************************************************************************)
(* Properties of the navigation: a session fetch without results.          *)
(***************************************************************************)

\* the only command is one that delivers an errMsg with the recovery state
\* SelectTheater and this suggestNextDay
OnlyErrorCommand(r, suggestNextDay) ==
    /\ Len(r.cmds) = 1
    /\ r.cmds[1].cmd = "err"
    /\ r.cmds[1].returnStateSet
    /\ r.cmds[1].returnState = "SelectTheater"
    /\ r.cmds[1].suggestNextDay = suggestNextDay

\* the machine after the message of a command of errors, delivered now
AfterError(task) ==
    Update(app, files,
           errMsg(task.err, task.returnState, task.returnStateSet, task.suggestNextDay),
           "ok").m

\* the errors that tell of a session fetch without results
NoSessionsTexts ==
    {"no sessions found for this theater", "no sessions found in visible theaters"}

\* C25: the message of an aggregation that merged no movie, and of a fetch for one
\* theater that returned no day or met a 404, is answered by an error with
\* suggestNextDay = true and the recovery state SelectTheater; the message of a
\* fetch for one theater that failed otherwise by one with suggestNextDay = false;
\* and whenever such an error is delivered the machine goes to Error with that
\* suggestNextDay and that recovery state
C25_NoSessionsSuggestsNextDay ==
    ~quit =>
        /\ \A msg \in {fetchSessionsMsg(0, << >>, "none"),
                       fetchSessionsMsg(0, << >>, NotFound),
                       fetchMovieCatalogMsg(<< >>)} :
              \A r \in {Update(app, files, msg, "ok")} :
                 /\ OnlyErrorCommand(r, TRUE)
                 /\ r.cmds[1].err \in NoSessionsTexts
        /\ OnlyErrorCommand(Update(app, files, fetchSessionsMsg(0, << >>, Failed), "ok"),
                            FALSE)
        /\ \A task \in {t \in BagToSet(pending) : t.cmd = "err" /\ t.returnStateSet} :
              \A m \in {AfterError(task)} :
                 /\ m.state = "Error"
                 /\ m.lastState = "SelectTheater"
                 /\ m.errorSuggestNextDay = (task.err \in NoSessionsTexts)

\* the fetch for one theater found no sessions: the machine is in Error and
\* suggests the next day
C25_Witness ==
    /\ ~quit
    /\ app.state = "Error"
    /\ app.err = "no sessions found for this theater"
    /\ app.errorSuggestNextDay
    /\ app.lastState = "SelectTheater"

(***************************************************************************)
(* Properties of the aggregation: the day that is merged.                  *)
(***************************************************************************)

\* the ids of the sessions of a session day
SessionIdsOfDay(day) ==
    UNION { UNION { {room.Sessions[k].Id : k \in DOMAIN room.Sessions} :
                    room \in Range(movie.Rooms) } :
            movie \in Range(day.Movies) }

\* C26: every session entry of the merged catalog is a session of a day that its
\* theater's fetch returned and that is dated exactly the requested date
C26_OnlyRequestedDay ==
    agMain = "returned" =>
        \A a \in Range(agMsg.movies) :
            \A e \in Range(a.sessions) :
                \E r \in Range(agOut) :
                    /\ r.theater = e.theater
                    /\ r.err = NoErr
                    /\ \E i \in 1..len(r.days) :
                          /\ r.days.elems[i].Date = FormatDateOnly(AggDate)
                          /\ e.session.Id \in SessionIdsOfDay(r.days.elems[i])

\* where a day of the requested date was returned for every theater with an
\* entry, the entries are sessions of that day
RequestedDayWhereReturned ==
    (/\ agMain = "returned"
     /\ \A r \in Range(agOut) :
           r.err = NoErr /\ len(r.days) > 0 =>
              \E i \in 1..len(r.days) : r.days.elems[i].Date = FormatDateOnly(AggDate))
    => C26_OnlyRequestedDay

(***************************************************************************)
(* Properties of the history files: the order of the entries.              *)
(***************************************************************************)

\* an entry names what the head names: the same id, or the same name in any case
AlikeEntries(idA, nameA, idB, nameB) ==
    \/ idA # "" /\ idA = idB
    \/ nameA # "" /\ EqualFold(nameA, nameB)

AlikeInList(kind, e, head) ==
    IF kind = "city" THEN AlikeEntries(e.ID, e.Name, head.ID, head.Name)
    ELSE AlikeEntries(e.TheaterID, e.Name, head.TheaterID, head.Name)

\* the entries behind the head are entries of the old list in their old order; an
\* old entry that is missing names what the head names, or stood behind all the
\* entries kept while the new list is full
RECURSIVE KeptInOrder(_, _, _, _, _)
KeptInOrder(kind, kept, old, head, full) ==
    IF old = << >> THEN kept = << >>
    ELSE IF kept # << >> /\ Head(old) = Head(kept)
    THEN KeptInOrder(kind, Tail(kept), Tail(old), head, full)
    ELSE \/ /\ AlikeInList(kind, Head(old), head)
            /\ KeptInOrder(kind, kept, Tail(old), head, full)
         \/ kept = << >> /\ full

\* a call that changed the city list put one of the cities it can be called with
\* at the head and kept the rest as stated
CityRemembered ==
    cityHist' # cityHist =>
        /\ Len(cityHist') \in 1..8
        /\ \E city \in CityCalls : cityHist'[1] = RecentCity(city.Id, city.Name, city.Uf)
        /\ KeptInOrder("city", Tail(cityHist'), cityHist, cityHist'[1],
                       Len(cityHist') = 8)

\* likewise for the theater list
TheaterRemembered ==
    theaterHist' # theaterHist =>
        /\ Len(theaterHist') \in 1..8
        /\ \E theater \in TheaterCalls :
              theaterHist'[1] = RecentTheater("1", theater.Id, theater.Name)
        /\ KeptInOrder("theater", Tail(theaterHist'), theaterHist, theaterHist'[1],
                       Len(theaterHist') = 8)

\* C27 as stated: RememberCity and RememberTheater put the entry at the head, keep
\* the other retained entries in their order and drop the entries at the tail
\* beyond the cap; and the city used at startup is the city remembered last
C27_Original ==
    [][/\ CityRemembered
       /\ TheaterRemembered
       /\ cityHist' # cityHist =>
             startupRecentCity(cityHist') = [recent |-> cityHist'[1], ok |-> TRUE]]_vars

\* C27: RememberCity and RememberTheater put the entry at the head, keep the other
\* retained entries in their order and drop the entries at the tail beyond the
\* cap; the city used at startup is the city remembered last if its id or its
\* name is not blank, and otherwise no remembered city is used
C27_NewestFirst ==
    [][/\ CityRemembered
       /\ TheaterRemembered
       /\ cityHist' # cityHist =>
             startupRecentCity(cityHist') =
                IF TrimSpace(cityHist'[1].ID) = "" /\ TrimSpace(cityHist'[1].Name) = ""
                THEN [recent |-> RecentCity("", "", ""), ok |-> FALSE]
                ELSE [recent |-> cityHist'[1], ok |-> TRUE]]_vars

\* nine cities were remembered one after the other: the list holds the last eight,
\* the newest first, and the first one is gone; startup uses the ninth
C27_Witness ==
    /\ Len(cityHist) = 8
    /\ \A i \in 1..8 : cityHist[i] = RecentCity(IdStrings[10 - i], "city " \o IdStrings[10 - i], "SP")
    /\ startupRecentCity(cityHist).ok
    /\ startupRecentCity(cityHist).recent.ID = "9"

(***************************************************************************)
(* Properties of the seat-count fetch pass.                                *)
(***************************************************************************)

\* item i of the list passes the filter, and its place among the items that pass
\* lies on the current page
PassesFilter(l, i) == l.filter = 0 \/ l.items[i].match

OnVisiblePage(l, i) ==
    /\ PassesFilter(l, i)
    /\ \E place \in {Cardinality({j \in 1..i : PassesFilter(l, j)})} :
          /\ place > l.page * l.perPage
          /\ place <= (l.page + 1) * l.perPage

\* the sessions the claim names: on the visible page, selling seats, with an id,
\* not among the marked ids
StatedPass(state, l, marked) ==
    IF state # "ShowSessions" THEN {}
    ELSE {l.items[i].Id : i \in {j \in 1..Len(l.items) :
                                    /\ OnVisiblePage(l, j)
                                    /\ l.items[j].HasSeatSelection
                                    /\ l.items[j].Id # 0
                                    /\ l.items[j].Id \notin marked}}

\* the session ids of the seat-count fetches among commands, and whether no id is
\* fetched twice
Scheduled(cmds) == {cmds[i].session : i \in {j \in DOMAIN cmds : cmds[j].cmd = "fetchSeatCount"}}

ScheduledOnce(cmds) ==
    \A i, j \in DOMAIN cmds :
        cmds[i].cmd = "fetchSeatCount" /\ cmds[i] = cmds[j] => i = j

\* the messages whose handling ends in a fetch pass when the machine is in
\* ShowSessions afterwards: a resize, a key of the filter, a key that turns the
\* page, and the selection of a movie
PassMessages ==
    IF app.state = "ShowSessions"
    THEN {WindowSizeMsg(perPage) : perPage \in env.perPages}
         \cup {KeyMsg(key, 1) : key \in {"a", "backspace", "right", "left"}}
         \cup {KeyMsg("esc", 1) : x \in {i \in {1} : app.sessionList.filter > 0}}
    ELSE IF app.state = "SelectMovie"
    THEN {KeyMsg("enter", c) : c \in 1..Len(PageItems(app.movieList))}
    ELSE {WindowSizeMsg(perPage) : perPage \in env.perPages}

\* C30: a seat-count fetch pass schedules exactly the sessions on the visible page
\* of the filtered session list that sell seats, have an id and are not marked in
\* seatCounts, each once, and marks them; outside ShowSessions it schedules
\* nothing
C30_PassSchedulesVisiblePage ==
    /\ Range(pendingSeatCountSessionIDsOnCurrentPage(app))
          = StatedPass(app.state, app.sessionList, DOMAIN app.seatCounts)
    /\ \A msg \in PassMessages :
          \A r \in {Update(app, files, msg, "ok")} :
             /\ Scheduled(r.cmds)
                   = StatedPass(r.m.state, r.m.sessionList, DOMAIN app.seatCounts)
             /\ ScheduledOnce(r.cmds)
             /\ DOMAIN r.m.seatCounts = DOMAIN app.seatCounts \cup Scheduled(r.cmds)

\* with pages of one session and a filter typed that hides session 2, the page was
\* turned to session 3, which sells no seats: the passes have scheduled session 1
\* and nothing else
C30_Witness ==
    /\ app.state = "ShowSessions"
    /\ app.sessionList.perPage = 1
    /\ app.sessionList.filter = 1
    /\ app.sessionList.page = 1
    /\ DOMAIN app.seatCounts = {1}
    /\ Outstanding(pending, 1) = 1

(***************************************************************************)
(* Properties of the seat map: the sections of a session.                  *)
(***************************************************************************)

\* the successful session details that a command in flight can deliver
DetailsInFlight ==
    UNION { {msg \in Results(task) : msg.err = "none"} :
            task \in {t \in BagToSet(pending) : t.cmd = "fetchSessionDetails"} }

\* C31: a successful session-details result with two or more sections that sell
\* seats leads to SelectSection; with exactly one the section is selected and its
\* seat map fetched in LoadingSeatMap, the section list is not set, and the seat
\* map that arrives leads to ShowSeatMap; with none an error is raised that leads
\* to Error
C31_SectionsDecideScreen ==
    \A msg \in DetailsInFlight :
       \A r \in {Update(app, files, msg, "ok")} :
          CASE Len(msg.sections) >= 2 ->
                  /\ r.m.state = "SelectSection"
                  /\ r.m.sectionList.items = msg.sections
                  /\ r.cmds = << >>
            [] Len(msg.sections) = 1 ->
                  /\ r.m.state = "LoadingSeatMap"
                  /\ r.m.selectedSection = msg.sections[1]
                  /\ r.m.sectionList = app.sectionList
                  /\ r.cmds = <<fetchSeatMapCmd(app.selectedSession.Id, msg.sections[1])>>
                  /\ \A seats \in {x \in Results(r.cmds[1]) : x.err = "none"} :
                        /\ Update(r.m, r.fs, seats, "ok").m.state = "ShowSeatMap"
                        /\ Update(r.m, r.fs, seats, "ok").cmds = << >>
            [] OTHER ->
                  /\ r.m = app
                  /\ Len(r.cmds) = 1
                  /\ r.cmds[1].cmd = "err"
                  /\ \A e \in Results(r.cmds[1]) :
                        /\ e.err = "no seat map available for this session"
                        /\ Update(r.m, r.fs, e, "ok").m.state = "Error"

\* the seat map of the only section of session 1 is shown, and the section list
\* was never filled
C31_Witness ==
    /\ app.state = "ShowSeatMap"
    /\ app.selectedSession.Id = 1
    /\ app.selectedSection = 1
    /\ app.seatMap = 1
    /\ app.sectionList.items = << >>

(***************************************************************************)
(* Properties of the theater preferences.                                  *)
(***************************************************************************)

\* a set with x put in if it was out and taken out if it was in
Toggled(S, x) == IF x \in S THEN S \ {x} ELSE S \cup {x}

Min(a, b) == IF a <= b THEN a ELSE b

\* the theater list shows the loaded theaters that are not hidden, the preference
\* list every loaded theater with its hidden flag
ListsDerived(m) ==
    /\ Range(m.theaterList.items) = Range(m.theaters) \ m.hiddenTheaters
    /\ Len(m.theaterList.items) = Cardinality(Range(m.theaters) \ m.hiddenTheaters)
    /\ Len(m.theaterPref.items) = Len(m.theaters)
    /\ \A i \in 1..Len(m.theaters) :
          /\ m.theaterPref.items[i].theater = m.theaters[i]
          /\ m.theaterPref.items[i].hidden = (m.theaters[i] \in m.hiddenTheaters)

VisibleSet(m) == Range(m.theaters) \ m.hiddenTheaters

\* the commands that ask for the movies of all theaters
CatalogFetches(cmds) == {cmds[i] : i \in {j \in DOMAIN cmds : cmds[j].cmd = "fetchMovieCatalog"}}

\* C33: on SelectTheater the theater list holds exactly the loaded theaters that
\* are not in the hidden set of the model; ctrl+f asks for the movies of exactly
\* these theaters, and asks for nothing and raises an error that leads to Error
\* when there is none
C33_BrowsingListIsVisible ==
    app.state = "SelectTheater" =>
       /\ Range(app.theaterList.items) = VisibleSet(app)
       /\ \A r \in {Update(app, files, KeyMsg("ctrl+f", 1), "ok")} :
             IF VisibleSet(app) = {}
             THEN /\ CatalogFetches(r.cmds) = {}
                  /\ Len(r.cmds) = 1
                  /\ \A e \in Results(r.cmds[1]) :
                        Update(r.m, r.fs, e, "ok").m.state = "Error"
             ELSE /\ Len(r.cmds) = 1
                  /\ r.cmds[1].cmd = "fetchMovieCatalog"
                  /\ Range(r.cmds[1].theaters) = VisibleSet(app)
                  /\ Len(r.cmds[1].theaters) = Cardinality(VisibleSet(app))
                  /\ r.cmds[1].city = app.city

(***************************************************************************)
(* Properties of the date picker.                                          *)
(***************************************************************************)

\* the screens on which ctrl+d opens the date picker
PickerScreens == {"SelectCity", "SelectTheater", "SelectMovie", "ShowSessions"}

\* the model with the date picker open and the return state recorded
PickerOpened(m, returnState) ==
    [m EXCEPT !.state = "SelectDate", !.dateReturnState = returnState,
              !.dateReturnStateSet = TRUE, !.dateList = m.date]

\* C34: ctrl+d on SelectCity, SelectTheater, SelectMovie and ShowSessions opens
\* the date picker and records that screen as the return state; ctrl+d on Error
\* with suggestNextDay opens it and records ShowSessions, and without
\* suggestNextDay changes nothing; esc in the picker returns to the recorded
\* state, leaves the working date as it is and issues no command
C34_PickerReturnState ==
    /\ \A r \in {Update(app, files, KeyMsg("ctrl+d", 1), "ok")} :
          /\ app.state \in PickerScreens =>
                r.m = PickerOpened(app, app.state) /\ r.cmds = << >>
          /\ app.state = "Error" /\ app.errorSuggestNextDay =>
                r.m = PickerOpened(app, "ShowSessions") /\ r.cmds = << >>
          /\ app.state = "Error" /\ ~app.errorSuggestNextDay =>
                r.m = app /\ r.cmds = << >>
    /\ app.state = "SelectDate" =>
          /\ app.dateReturnStateSet
          /\ app.dateReturnState \in PickerScreens
          /\ \A r \in {Update(app, files, KeyMsg("esc", 1), "ok")} :
                /\ r.m.state = app.dateReturnState
                /\ r.m.date = app.date
                /\ r.cmds = << >>
                /\ r.fs = files

\* the picker was opened from the error that no sessions were found on the next
\* day: it returns to ShowSessions
C34_Witness ==
    /\ app.state = "SelectDate"
    /\ app.dateReturnState = "ShowSessions"
    /\ app.date = 1
    /\ app.err = "no sessions found for this theater"

(***************************************************************************)
(* Properties of the states: Error and the Loading states.                 *)
(***************************************************************************)

\* the screens on which the user acts
InteractiveScreens ==
    {"SelectCity", "SelectTheater", "ManageTheaters", "SelectMovie", "ShowSessions",
     "SelectSection", "ShowSeatMap", "SelectDate"}

\* C35: in Error the recorded recovery state is a screen, neither a Loading state
\* nor Error; an error that arrives in Error records SelectTheater; esc in Error
\* lands on the recorded screen
C35_RecoveryIsAScreen ==
    app.state = "Error" =>
       /\ app.lastState \notin LoadingStates \cup {"Error"}
       /\ app.lastState \in InteractiveScreens
       /\ \A e \in ErrorsInFlight :
             \A r \in {Update(app, files, e, "ok")} :
                r.m.state = "Error" /\ r.m.lastState = "SelectTheater"
       /\ \A r \in {Update(app, files, KeyMsg("esc", 1), "ok")} :
             /\ r.m.state = app.lastState
             /\ r.m.state \in InteractiveScreens
             /\ r.cmds = << >>

\* an error arrived in LoadingSeatMap and recorded ShowSessions, and the next error
\* is about to arrive in Error
C35_Witness ==
    /\ app.state = "Error"
    /\ app.lastState = "ShowSessions"
    /\ ErrorsInFlight # {}

\* the keys of the program, and those that quit where no list takes them
AllKeys ==
    {"enter", "esc", "tab", "backspace", "right", "left", "ctrl+c", "ctrl+d",
     "ctrl+f", "ctrl+l", "ctrl+t", SpaceKey} \cup RuneKeys

QuitKeys == {"ctrl+c", "q"}

\* the step is the handling of the result of a command in flight
ResultHandled ==
    \E task \in BagToSet(pending) :
       \E msg \in Results(task) :
          \E io \in IOs(msg) : app' = Update(app, files, msg, io).m

\* C36: in a Loading state a key other than the quit keys leaves the model as it
\* is (the state, the working date, the selections) and issues no command, and a
\* quit key quits; the machine leaves a Loading state only in a step that handles
\* the result of a command
C36_LoadingIgnoresKeys ==
    /\ [](app.state \in LoadingStates =>
             \A key \in AllKeys :
                \A r \in {Update(app, files, KeyMsg(key, 1), "ok")} :
                   IF key \in QuitKeys THEN r.quit
                   ELSE /\ r.m = app
                        /\ r.fs = files
                        /\ r.cmds = << >>
                        /\ ~r.quit)
    /\ [][app.state \in LoadingStates /\ app'.state # app.state => ResultHandled]_vars

\* the seat map is awaited: the session was chosen with tab and its details named
\* one section
C36_Witness ==
    /\ app.state = "LoadingSeatMap"
    /\ app.selectedSection = 1
    /\ \E task \in BagToSet(pending) : task.cmd = "fetchSeatMap"


\* a command in flight every result of which leaves the Loading states or
\* issues the command that carries on (the next fetch, or the error message)
CarriesOn(task) ==
    /\ Results(task) # {}
    /\ \A msg \in Results(task) :
          \A io \in IOs(msg) :
             \A r \in {Update(app, files, msg, io)} :
                r.m.state \notin LoadingStates \/ r.cmds # << >>

\* C37: when every command returns and every message is handled, a Loading
\* state is followed by a state that is none (a screen, the seat map or Error),
\* unless the user quits; and in a Loading state some command in flight carries
\* on: each of its results leaves the Loading states or issues a further command
C37_LoadingEnds ==
    /\ (app.state \in LoadingStates /\ ~quit) ~> (app.state \notin LoadingStates \/ quit)
    /\ [](app.state \in LoadingStates /\ ~quit =>
             \E task \in BagToSet(pending) : CarriesOn(task))

\* the sessions of the next day are awaited: no sessions were found and the user
\* asked for the day after
C37_Witness ==
    /\ app.state = "LoadingSessions"
    /\ app.date = 1
    /\ ~quit
    /\ \E task \in BagToSet(pending) : task.cmd \in {"fetchSessions", "fetchMovieCatalog"}


----------------------------------------------------------------------------
(***************************************************************************)
(* Properties of the aggregation: termination.                             *)
(***************************************************************************)

\* the results with a movie on the day selected for the date
ContributingResults ==
    {r \in Range(agOut) :
        r.err = NoErr /\ Len(selectDay(r.days, AggDate).Movies) > 0}

\* a goroutine that has its result can send it: the channel has room
NoSenderBlocks ==
    \A t \in DOMAIN agPc : agPc[t].at = "out" => Len(agOut) < Len(agTheaters)

\* when the catalog message is made every goroutine has finished, the channel
\* holds the result of each theater once, and the counters and the theaters with
\* a movie add up to the number of theaters
MergedAfterAll ==
    AggReturned =>
        /\ \A t \in DOMAIN agPc : agPc[t].at = "done"
        /\ Len(agOut) = Len(agTheaters)
        /\ \A i \in DOMAIN agTheaters :
             Cardinality({j \in DOMAIN agOut : agOut[j].theater = agTheaters[i]}) = 1
        /\ agMsg.failed + agMsg.ignored + Cardinality(ContributingResults)
             = Len(agTheaters)

\* C38: an aggregation over N >= 1 theaters returns when every fetch does; in
\* every state (the first and the one after each step) no goroutine waits at the
\* send of its result, and when the catalog message is made every goroutine has
\* finished and each theater's result is in the channel once, with failed +
\* ignored + the number of theaters with at least one movie = N; the message is
\* made once
C38_AggregationTerminates ==
    /\ <>(agMain = "returned")
    /\ NoSenderBlocks /\ MergedAfterAll
    /\ [][NoSenderBlocks' /\ MergedAfterAll']_vars
    /\ [][agMsg' # agMsg => agMain = "waiting" /\ agMain' = "returned"]_vars
    /\ [][agMain = "returned" => agMain' = "returned" /\ agMsg' = agMsg]_vars

\* of two theaters one failed and one shows a movie
C38_Witness ==
    /\ AggReturned
    /\ Len(agTheaters) = 2
    /\ agMsg.failed = 1
    /\ agMsg.ignored = 0
    /\ Cardinality(ContributingResults) = 1


----------------------------------------------------------------------------
(***************************************************************************)
(* Properties of the change of city.                                       *)
(***************************************************************************)

\* C39: in SelectTheater and in ManageTheaters the loaded theaters are those of
\* the selected city, and the hidden set is the one the visibility file holds
\* for that city
C39_TheatersOfSelectedCity ==
    app.state \in {"SelectTheater", "ManageTheaters"} =>
       /\ app.theaters = TheatersOf(app.city)
       /\ app.hiddenTheaters = LoadHiddenTheaters(files, app.city)


----------------------------------------------------------------------------
(***************************************************************************)
(* Properties of the movie list: one theater or all.                       *)
(***************************************************************************)

\* C40: in SelectMovie the flag browsingAllTheaters is set exactly when the
\* movie list shown was made from the catalog of all theaters, and not set
\* exactly when it was made from the sessions of one theater
C40_FlagIsListOrigin ==
    app.state = "SelectMovie" =>
       /\ app.browsingAllTheaters <=> app.movieList.title = titleAllTheaters
       /\ ~app.browsingAllTheaters <=> app.movieList.title = titleOneTheater
====
